---------------------------- MODULE Spec2Model ----------------------------
(***************************************************************************)
(* State-machine model of two GPAC filters and of the part of the filter   *)
(* session they talk to:                                                   *)
(*   - m2psdmx  (src/src/filters/dmx_mpegps.c), MPEG program stream demux  *)
(*   - ffenc    (src/src/filters/ff_enc.c), libavcodec encoder             *)
(* One filter instance is modelled per behaviour (variable `filter`).      *)
(* Every callback of the filter register is one action.  A callback is an *)
(* operator from the private state block and the call's inputs to the new *)
(* state block and a record of what the call did at the session and       *)
(* collaborator boundary (packets sent, pids created, library calls).     *)
(***************************************************************************)
EXTENDS Integers, Sequences, FiniteSets, TLC

VARIABLES
    filter,     \* which filter register this instance was loaded from
    ctx,        \* GF_M2PSDmxCtx, the private state block of m2psdmx
    in_pck,     \* m2psdmx: the input pid holds a pending packet
    ectx,       \* GF_FFEncodeCtx, the private state block of ffenc
    epid,       \* ffenc: session side of the input and output pids
    hist        \* history of the event stream (play run, seek counts)

vars == <<filter, ctx, in_pck, ectx, epid, hist>>

NULL == "NULL"

(***************************************************************************)
(* Bounds of the model.                                                    *)
(***************************************************************************)
\* frames held by every elementary stream of a program stream
NbFrames == 2
\* PLAY start offsets are drawn from 0..MaxStart (seconds)
MaxStart == 1

(***************************************************************************)
(* Program constants.                                                      *)
(***************************************************************************)
TS_90000 == 90000
DUR_DEN == 1000

GF_STREAM_VISUAL == "GF_STREAM_VISUAL"
GF_STREAM_AUDIO == "GF_STREAM_AUDIO"

GF_OK == "GF_OK"
GF_EOS == "GF_EOS"
GF_NOT_SUPPORTED == "GF_NOT_SUPPORTED"
GF_URL_ERROR == "GF_URL_ERROR"
GF_NON_COMPLIANT_BITSTREAM == "GF_NON_COMPLIANT_BITSTREAM"
GF_SERVICE_ERROR == "GF_SERVICE_ERROR"
GF_REQUIRES_NEW_INSTANCE == "GF_REQUIRES_NEW_INSTANCE"
GF_OUT_OF_MEM == "GF_OUT_OF_MEM"

(***************************************************************************)
(* Pid properties.  A property value is a tuple: <<v>> for PROP_UINT,      *)
(* <<num, den>> for PROP_FRAC, <<>> when the key is absent.                *)
(***************************************************************************)
PropKeys ==
    {"STREAM_TYPE", "OTI", "TIMESCALE", "ID", "CLOCK_ID", "FPS", "WIDTH",
     "HEIGHT", "SAR", "DURATION", "SAMPLE_RATE", "NUM_CHANNELS", "BITRATE"}

NoProps == [k \in PropKeys |-> <<>>]

PROP_UINT(v) == <<v>>

PROP_FRAC(num, den) == <<num, den>>

\* gf_filter_pid_set_property: one value per key, the new value replaces the old
gf_filter_pid_set_property(props, key, val) == [props EXCEPT ![key] = val]

\* gf_filter_pid_new: a fresh output pid carries no property
gf_filter_pid_new == [props |-> NoProps]

(***************************************************************************)
(* The mpeg2ps demux library, seen through the calls the filter makes.     *)
(* A source is what a file path holds; a handle is a source being read,    *)
(* with one read cursor per elementary stream.                             *)
(***************************************************************************)
Paths == {"a.mpg", "b.mpg", "c.mpg", "missing.mpg", "broken.mpg"}

\* the frames of one elementary stream: the first dts is the first timestamp
\* of the source, cts = dts + reorder, first frame intra
StreamFrames(first, reorder) ==
    [k \in 1..NbFrames |->
        [dts |-> first + (k - 1) * 3003,
         cts |-> first + (k - 1) * 3003 + reorder,
         ftype |-> IF k = 1 THEN 1 ELSE 2]]

\* what each file holds; video fps is given in 1/1000 frame per second
Sources ==
    [p \in Paths |->
      CASE p = "a.mpg" ->
            [exists |-> TRUE, valid |-> TRUE, max_time |-> 10000, first_cts |-> 0,
             reorder |-> 0,
             video |-> << [type |-> "MPEG_VIDEO_MPEG2", fps |-> 25000, width |-> 720,
                           height |-> 576, par |-> 16 * 65536 + 15],
                          [type |-> "MPEG_VIDEO_MPEG1", fps |-> 29970, width |-> 352,
                           height |-> 240, par |-> 65536 + 1] >>,
             audio |-> << [type |-> "MPEG_AUDIO_MPEG", freq |-> 48000, channels |-> 2,
                           bitrate |-> 192] >>]
        [] p = "b.mpg" ->
            [exists |-> TRUE, valid |-> TRUE, max_time |-> 4000, first_cts |-> 900,
             reorder |-> 300,
             video |-> << [type |-> "MPEG_VIDEO_UNKNOWN", fps |-> 0, width |-> 320,
                           height |-> 200, par |-> 0] >>,
             audio |-> << [type |-> "MPEG_AUDIO_AC3", freq |-> 44100, channels |-> 6,
                           bitrate |-> 384] >>]
        [] p = "c.mpg" ->
            [exists |-> TRUE, valid |-> TRUE, max_time |-> 2000, first_cts |-> 0,
             reorder |-> 0,
             video |-> << >>,
             audio |-> << [type |-> "MPEG_AUDIO_UNKNOWN", freq |-> 0, channels |-> 0,
                           bitrate |-> 0],
                          [type |-> "MPEG_AUDIO_LPCM", freq |-> 48000, channels |-> 1,
                           bitrate |-> 768] >>]
        [] p = "missing.mpg" ->
            [exists |-> FALSE, valid |-> FALSE, max_time |-> 0, first_cts |-> 0,
             reorder |-> 0,
             video |-> << >>, audio |-> << >>]
        [] OTHER ->
            [exists |-> TRUE, valid |-> FALSE, max_time |-> 0, first_cts |-> 0,
             reorder |-> 0,
             video |-> << >>, audio |-> << >>]]

\* the NULL mpeg2ps_t pointer
NoHandle == [path |-> NULL, vpos |-> << >>, apos |-> << >>]

gf_file_exists(url) == url /= NULL /\ Sources[url].exists

\* mpeg2ps_init: NULL when the file cannot be opened or is not a program stream
mpeg2ps_init(url) ==
    IF url /= NULL /\ Sources[url].exists /\ Sources[url].valid
    THEN [path |-> url,
          vpos |-> [i \in 1..Len(Sources[url].video) |-> 0],
          apos |-> [i \in 1..Len(Sources[url].audio) |-> 0]]
    ELSE NoHandle

mpeg2ps_get_video_stream_count(ps) == Len(Sources[ps.path].video)

mpeg2ps_get_audio_stream_count(ps) == Len(Sources[ps.path].audio)

mpeg2ps_get_max_time_msec(ps) == Sources[ps.path].max_time

mpeg2ps_get_first_cts(ps) == Sources[ps.path].first_cts

\* the stream description; stream numbers are 0-based as in the library
VideoInfo(ps, num) == Sources[ps.path].video[num + 1]

AudioInfo(ps, num) == Sources[ps.path].audio[num + 1]

\* frames of a stream: timestamps start at the source's first timestamp
FramesOf(ps, num) ==
    StreamFrames(Sources[ps.path].first_cts, Sources[ps.path].reorder)

\* index (0-based cursor) of the first frame at or after time msec
SeekIndex(frames, msec) ==
    LET late == {k \in 1..Len(frames) :
                    (frames[k].dts - frames[1].dts) * 1000 >= msec * TS_90000}
    IN  IF late = {} THEN Len(frames)
        ELSE (CHOOSE k \in late : \A j \in late : k <= j) - 1

mpeg2ps_seek_video_frame(ps, num, msec) ==
    [ps EXCEPT !.vpos[num + 1] = SeekIndex(FramesOf(ps, num), msec)]

mpeg2ps_seek_audio_frame(ps, num, msec) ==
    [ps EXCEPT !.apos[num + 1] = SeekIndex(FramesOf(ps, num), msec)]

\* cursor of a stream
CursorOf(ps, type, num) ==
    IF type = GF_STREAM_VISUAL THEN ps.vpos[num + 1] ELSE ps.apos[num + 1]

\* mpeg2ps_get_video_frame / mpeg2ps_get_audio_frame: res = 0 past the last frame
HasFrame(ps, type, num) == CursorOf(ps, type, num) < Len(FramesOf(ps, num))

NextFrame(ps, type, num) == FramesOf(ps, num)[CursorOf(ps, type, num) + 1]

AdvanceCursor(ps, type, num) ==
    IF type = GF_STREAM_VISUAL
    THEN [ps EXCEPT !.vpos[num + 1] = @ + 1]
    ELSE [ps EXCEPT !.apos[num + 1] = @ + 1]


(***************************************************************************)
(* m2psdmx: stream setup (m2psdmx_setup).                                  *)
(***************************************************************************)
\* get_video_timing: <<timescale, dts_inc>> for a frame rate in 1/1000 fps
get_video_timing(fps_1000) ==
    IF fps_1000 = 29970 THEN <<30000, 1001>>
    ELSE IF fps_1000 = 23976 THEN <<24000, 1001>>
    ELSE IF fps_1000 = 59940 THEN <<60000, 1001>>
    ELSE <<fps_1000, 1000>>

\* faulty variant of the pool lookup: the in_use test is missing
FindUnusedIgnoringUse(streams, type) ==
    LET free == {j \in 1..Len(streams) : streams[j].stream_type = type}
    IN  IF free = {} THEN 0 ELSE CHOOSE j \in free : \A k \in free : j <= k

\* the pool lookup of m2psdmx_setup: index of the first stream of the given
\* type that is not in use, 0 when there is none
FindUnused(streams, type) ==
    LET free == {j \in 1..Len(streams) :
                    streams[j].stream_type = type /\ ~streams[j].in_use}
    IN  IF free = {} THEN 0 ELSE CHOOSE j \in free : \A k \in free : j <= k

\* GF_SAFEALLOC(st, M2PSStream) followed by gf_filter_pid_new and gf_list_add
NewStream(type) ==
    [opid |-> gf_filter_pid_new, stream_type |-> type, stream_num |-> 0,
     in_use |-> FALSE]

\* the properties m2psdmx_setup sets on the pid of video stream i
VideoProps(props, ps, st, i, sync_id) ==
    LET info == VideoInfo(ps, i)
        vtype == VideoInfo(ps, st.stream_num).type
        p1 == gf_filter_pid_set_property(props, "STREAM_TYPE", PROP_UINT(st.stream_type))
        p2 == IF vtype = "MPEG_VIDEO_MPEG1"
              THEN gf_filter_pid_set_property(p1, "OTI", PROP_UINT("GPAC_OTI_VIDEO_MPEG1"))
              ELSE IF vtype = "MPEG_VIDEO_MPEG2"
              THEN gf_filter_pid_set_property(p1, "OTI", PROP_UINT("GPAC_OTI_VIDEO_MPEG2_MAIN"))
              ELSE p1
        p3 == gf_filter_pid_set_property(p2, "TIMESCALE", PROP_UINT(TS_90000))
        p4 == gf_filter_pid_set_property(p3, "ID", PROP_UINT(1 + st.stream_num))
        p5 == gf_filter_pid_set_property(p4, "CLOCK_ID", PROP_UINT(sync_id))
        frac == get_video_timing(info.fps)
        p6 == IF info.fps /= 0
              THEN gf_filter_pid_set_property(p5, "FPS", PROP_FRAC(frac[1], frac[2]))
              ELSE p5
        p7 == gf_filter_pid_set_property(p6, "WIDTH", PROP_UINT(info.width))
        \* the height is written under the WIDTH key as well
        p8 == gf_filter_pid_set_property(p7, "WIDTH", PROP_UINT(info.height))
        p9 == IF info.par /= 0
              THEN gf_filter_pid_set_property(p8, "SAR",
                        PROP_FRAC(info.par \div 65536, info.par % 65536))
              ELSE p8
    IN  gf_filter_pid_set_property(p9, "DURATION",
            PROP_FRAC(mpeg2ps_get_max_time_msec(ps), DUR_DEN))

\* the properties m2psdmx_setup sets on the pid of audio stream i
AudioProps(props, ps, st, i, sync_id) ==
    LET info == AudioInfo(ps, i)
        atype == AudioInfo(ps, st.stream_num).type
        p1 == gf_filter_pid_set_property(props, "STREAM_TYPE", PROP_UINT(st.stream_type))
        p2 == IF atype = "MPEG_AUDIO_MPEG"
              THEN gf_filter_pid_set_property(p1, "OTI", PROP_UINT("GPAC_OTI_AUDIO_MPEG1"))
              ELSE IF atype = "MPEG_AUDIO_AC3"
              THEN gf_filter_pid_set_property(p1, "OTI", PROP_UINT("GPAC_OTI_AUDIO_AC3"))
              ELSE IF atype = "MPEG_AUDIO_LPCM"
              THEN gf_filter_pid_set_property(p1, "OTI", PROP_UINT("LPCM"))
              ELSE p1
        p3 == gf_filter_pid_set_property(p2, "SAMPLE_RATE", PROP_UINT(info.freq))
        p4 == gf_filter_pid_set_property(p3, "NUM_CHANNELS", PROP_UINT(info.channels))
        p5 == gf_filter_pid_set_property(p4, "BITRATE", PROP_UINT(info.bitrate))
        p6 == gf_filter_pid_set_property(p5, "TIMESCALE", PROP_UINT(TS_90000))
        p7 == gf_filter_pid_set_property(p6, "ID", PROP_UINT(100 + st.stream_num))
        p8 == gf_filter_pid_set_property(p7, "CLOCK_ID", PROP_UINT(sync_id))
    IN  gf_filter_pid_set_property(p8, "DURATION",
            PROP_FRAC(mpeg2ps_get_max_time_msec(ps), DUR_DEN))

\* one iteration of a setup loop: take a pooled stream of the type or allocate
\* one, mark it in use, bind it to stream i, set its pid properties.
\* acc = [streams, sync_id, created]
SetupOne(acc, ps, type, i) ==
    LET j == FindUnused(acc.streams, type)
        S1 == IF j = 0 THEN Append(acc.streams, NewStream(type)) ELSE acc.streams
        k == IF j = 0 THEN Len(S1) ELSE j
        st == [S1[k] EXCEPT !.in_use = TRUE, !.stream_num = i]
        sync_id == IF acc.sync_id /= 0 THEN acc.sync_id
                   ELSE IF type = GF_STREAM_VISUAL THEN 1 + i ELSE 100 + i
        props == IF type = GF_STREAM_VISUAL
                 THEN VideoProps(st.opid.props, ps, st, i, sync_id)
                 ELSE AudioProps(st.opid.props, ps, st, i, sync_id)
    IN  [streams |-> [S1 EXCEPT ![k] = [st EXCEPT !.opid.props = props]],
         sync_id |-> sync_id,
         created |-> acc.created + (IF j = 0 THEN 1 ELSE 0)]

RECURSIVE SetupVideo(_, _, _)
SetupVideo(acc, ps, i) ==
    IF i >= mpeg2ps_get_video_stream_count(ps) THEN acc
    ELSE SetupVideo(SetupOne(acc, ps, GF_STREAM_VISUAL, i), ps, i + 1)

RECURSIVE SetupAudio(_, _, _)
SetupAudio(acc, ps, i) ==
    IF i >= mpeg2ps_get_audio_stream_count(ps) THEN acc
    ELSE IF AudioInfo(ps, i).type = "MPEG_AUDIO_UNKNOWN"
         THEN SetupAudio(acc, ps, i + 1)
         ELSE SetupAudio(SetupOne(acc, ps, GF_STREAM_AUDIO, i), ps, i + 1)

\* m2psdmx_setup on the stream list: [streams, sync_id, created]
m2psdmx_setup(streams, ps) ==
    SetupAudio(SetupVideo([streams |-> streams, sync_id |-> 0, created |-> 0],
                          ps, 0),
               ps, 0)


(***************************************************************************)
(* What a callback invocation did, as seen from outside the filter.        *)
(***************************************************************************)
NoCall ==
    [ret |-> GF_OK,         \* value returned
     opened |-> FALSE,      \* the collaborator open call was made
     closed |-> 0,          \* number of collaborator close calls
     created |-> 0,         \* number of gf_filter_pid_new calls
     removed |-> 0,         \* number of gf_filter_pid_remove calls
     failure |-> NULL,      \* error given to gf_filter_setup_failure
     seeks |-> {},          \* <<stream_type, stream_num, msec>> of every seek call
     reads |-> {},          \* streams a frame was requested for
     sent |-> {},           \* packets sent on output pids
     eos |-> {},            \* output pids marked end of stream
     dropped |-> 0,         \* number of gf_filter_pid_drop_packet calls
     submits |-> << >>,     \* pts of the frames submitted to the encoder (-1: NULL)
     pck_ops |-> << >>,     \* accesses to the input packet, in program order:
                            \* "get", "data", "cts", "payload" (its bytes are
                            \* read), "drop"
     skip |-> -1]           \* value published as audio-skip property (-1: none)

(***************************************************************************)
(* m2psdmx callbacks.                                                      *)
(***************************************************************************)
\* the pid through which the source file reaches m2psdmx
DmxInPid == "in1"

\* stream keys of all sources, for the seek history
StreamKeys ==
    {GF_STREAM_VISUAL, GF_STREAM_AUDIO} \X
    UNION {0..(Len(Sources[p].video) - 1) \cup 0..(Len(Sources[p].audio) - 1) : p \in Paths}

NoHist ==
    [run_x |-> -1,                          \* start offset of the current play run
     seeks |-> [k \in StreamKeys |-> 0],    \* seek calls per stream in the run
     stopped |-> FALSE,                     \* a STOP was the last PLAY/STOP event
     failed |-> FALSE,                      \* a process call signalled setup failure
                                            \* since the last configure_pid
     configured |-> FALSE,                  \* a configure_pid call has returned GF_OK
     handles |-> 0,                         \* collaborator handles open (opened, not closed)
     records |-> 0,                         \* stream records allocated, not freed
     lost |-> {}]                           \* heap buffers whose pointer was overwritten
                                            \* or discarded while they were allocated

\* m2psdmx_initialize on a zeroed private block
DmxCtxInit ==
    [ipid |-> NULL, src_url |-> NULL, ps |-> NoHandle, start_range |-> 0,
     first_dts |-> 0, is_playing |-> FALSE, in_seek |-> FALSE, streams |-> << >>]

\* m2psdmx_configure_pid, is_remove branch
m2psdmx_remove(c) == [c EXCEPT !.ipid = NULL, !.streams = << >>]

\* m2psdmx_configure_pid on a changed path: the mark-unused loop
MarkUnused(streams) == [j \in 1..Len(streams) |-> [streams[j] EXCEPT !.in_use = FALSE]]

\* faulty variant of the reconfigure branch: the mark-unused loop is missing
m2psdmx_configure_keep_streams(c, pid, caps_ok, path) ==
    IF ~caps_ok THEN [ctx |-> c, ret |-> GF_NOT_SUPPORTED, closed |-> 0]
    ELSE IF path = NULL
    THEN [ctx |-> [c EXCEPT !.ipid = pid], ret |-> GF_NOT_SUPPORTED, closed |-> 0]
    ELSE IF c.src_url /= NULL /\ c.src_url = path
    THEN [ctx |-> [c EXCEPT !.ipid = pid], ret |-> GF_OK, closed |-> 0]
    ELSE [ctx |-> [c EXCEPT !.ipid = pid, !.ps = NoHandle, !.src_url = path],
          ret |-> GF_OK,
          closed |-> IF c.ps /= NoHandle THEN 1 ELSE 0]

\* faulty variant of m2psdmx_configure: a pin that fails the capability check
\* is recorded with its path before it is rejected
m2psdmx_configure_rejected_is_recorded(c, pid, caps_ok, path) ==
    IF ~caps_ok
    THEN [ctx |-> IF path = NULL THEN c
                  ELSE [c EXCEPT !.ipid = pid, !.src_url = path],
          ret |-> GF_NOT_SUPPORTED, closed |-> 0]
    ELSE IF path = NULL
    THEN [ctx |-> [c EXCEPT !.ipid = pid], ret |-> GF_NOT_SUPPORTED, closed |-> 0]
    ELSE IF c.src_url /= NULL /\ c.src_url = path
    THEN [ctx |-> [c EXCEPT !.ipid = pid], ret |-> GF_OK, closed |-> 0]
    ELSE [ctx |-> [c EXCEPT !.ipid = pid,
                            !.streams = IF c.ps /= NoHandle THEN MarkUnused(@) ELSE @,
                            !.ps = NoHandle,
                            !.src_url = path],
          ret |-> GF_OK,
          closed |-> IF c.ps /= NoHandle THEN 1 ELSE 0]

\* m2psdmx_configure_pid, connect / reconfigure branch: [ctx, ret, closed]
m2psdmx_configure(c, pid, caps_ok, path) ==
    IF ~caps_ok THEN [ctx |-> c, ret |-> GF_NOT_SUPPORTED, closed |-> 0]
    ELSE IF path = NULL
    THEN [ctx |-> [c EXCEPT !.ipid = pid], ret |-> GF_NOT_SUPPORTED, closed |-> 0]
    ELSE IF c.src_url /= NULL /\ c.src_url = path
    THEN [ctx |-> [c EXCEPT !.ipid = pid], ret |-> GF_OK, closed |-> 0]
    ELSE [ctx |-> [c EXCEPT !.ipid = pid,
                            !.streams = IF c.ps /= NoHandle THEN MarkUnused(@) ELSE @,
                            !.ps = NoHandle,
                            !.src_url = path],
          ret |-> GF_OK,
          closed |-> IF c.ps /= NoHandle THEN 1 ELSE 0]

DmxConfigure(caps_ok, path) ==
    /\ filter = "m2psdmx"
    /\ LET r == m2psdmx_configure(ctx, DmxInPid, caps_ok, path)
       IN  /\ ctx' = r.ctx
           /\ hist' = [hist EXCEPT !.failed = FALSE, !.handles = @ - r.closed,
                                    !.configured = @ \/ r.ret = GF_OK]
    /\ UNCHANGED <<filter, in_pck, ectx, epid>>

DmxRemove ==
    /\ filter = "m2psdmx"
    /\ ctx.ipid /= NULL
    /\ ctx' = m2psdmx_remove(ctx)
    /\ in_pck' = FALSE
    /\ hist' = [hist EXCEPT !.failed = FALSE, !.records = @ - Len(ctx.streams)]
    /\ UNCHANGED <<filter, ectx, epid>>

\* the upstream file source dispatches the (complete) file as one packet
DmxUpstreamSend ==
    /\ filter = "m2psdmx"
    /\ ctx.ipid /= NULL
    /\ ~in_pck
    /\ in_pck' = TRUE
    /\ UNCHANGED <<filter, ctx, ectx, epid, hist>>


\* faulty variant of the event handler: PLAY does not test for a replay
m2psdmx_process_event_always_seek(c, type, x) ==
    IF type = "GF_FEVT_PLAY"
    THEN [ctx |-> [c EXCEPT !.start_range = x, !.is_playing = TRUE, !.in_seek = TRUE],
          cancel |-> TRUE]
    ELSE IF type = "GF_FEVT_STOP"
    THEN [ctx |-> [c EXCEPT !.is_playing = FALSE], cancel |-> FALSE]
    ELSE IF type = "GF_FEVT_SET_SPEED"
    THEN [ctx |-> c, cancel |-> TRUE]
    ELSE [ctx |-> c, cancel |-> FALSE]

\* faulty variant of the event handler: STOP does not clear is_playing
m2psdmx_process_event_stop_keeps_playing(c, type, x) ==
    IF type = "GF_FEVT_PLAY"
    THEN IF c.is_playing /\ c.start_range = x
         THEN [ctx |-> c, cancel |-> TRUE]
         ELSE [ctx |-> [c EXCEPT !.start_range = x, !.is_playing = TRUE,
                                 !.in_seek = TRUE],
               cancel |-> TRUE]
    ELSE IF type = "GF_FEVT_SET_SPEED"
    THEN [ctx |-> c, cancel |-> TRUE]
    ELSE [ctx |-> c, cancel |-> FALSE]

\* faulty variant of m2psdmx_process_event: SET_SPEED is passed through
m2psdmx_process_event_speed_passes(c, type, x) ==
    IF type = "GF_FEVT_PLAY"
    THEN IF c.is_playing /\ c.start_range = x
         THEN [ctx |-> c, cancel |-> TRUE]
         ELSE [ctx |-> [c EXCEPT !.start_range = x, !.is_playing = TRUE,
                                 !.in_seek = TRUE],
               cancel |-> TRUE]
    ELSE IF type = "GF_FEVT_STOP"
    THEN [ctx |-> [c EXCEPT !.is_playing = FALSE], cancel |-> FALSE]
    ELSE [ctx |-> c, cancel |-> FALSE]

\* m2psdmx_process_event: [ctx, cancel]
m2psdmx_process_event(c, type, x) ==
    IF type = "GF_FEVT_PLAY"
    THEN IF c.is_playing /\ c.start_range = x
         THEN [ctx |-> c, cancel |-> TRUE]
         ELSE [ctx |-> [c EXCEPT !.start_range = x, !.is_playing = TRUE,
                                 !.in_seek = TRUE],
               cancel |-> TRUE]
    ELSE IF type = "GF_FEVT_STOP"
    THEN [ctx |-> [c EXCEPT !.is_playing = FALSE], cancel |-> FALSE]
    ELSE IF type = "GF_FEVT_SET_SPEED"
    THEN [ctx |-> c, cancel |-> TRUE]
    ELSE [ctx |-> c, cancel |-> FALSE]

EventTypes == {"GF_FEVT_PLAY", "GF_FEVT_STOP", "GF_FEVT_SET_SPEED", "GF_FEVT_OTHER"}

\* history of the event stream: a play run starts with PLAY(x) and lasts until
\* a STOP or a PLAY with another offset
HistAfterEvent(h, type, x) ==
    IF type = "GF_FEVT_PLAY"
    THEN IF h.run_x = x THEN h
         ELSE [h EXCEPT !.run_x = x, !.seeks = NoHist.seeks, !.stopped = FALSE]
    ELSE IF type = "GF_FEVT_STOP"
    THEN [h EXCEPT !.run_x = -1, !.seeks = NoHist.seeks, !.stopped = TRUE]
    ELSE h

DmxEvent(type, x) ==
    /\ filter = "m2psdmx"
    /\ ctx' = m2psdmx_process_event(ctx, type, x).ctx
    /\ hist' = HistAfterEvent(hist, type, x)
    /\ UNCHANGED <<filter, in_pck, ectx, epid>>

\* the in_seek block of m2psdmx_process: seek every in-use stream.
\* acc = [ps, seeks]
RECURSIVE SeekStreams(_, _, _, _)
SeekStreams(streams, i, seek_to, acc) ==
    IF i > Len(streams) THEN acc
    ELSE LET st == streams[i]
         IN  IF ~st.in_use THEN SeekStreams(streams, i + 1, seek_to, acc)
             ELSE SeekStreams(streams, i + 1, seek_to,
                    [ps |-> IF st.stream_type = GF_STREAM_VISUAL
                            THEN mpeg2ps_seek_video_frame(acc.ps, st.stream_num, seek_to)
                            ELSE mpeg2ps_seek_audio_frame(acc.ps, st.stream_num, seek_to),
                     seeks |-> acc.seeks \cup
                               {<<st.stream_type, st.stream_num, seek_to>>}])

\* faulty variant of DmxPacket: the cts is not corrected by first_dts
DmxPacketRawCts(i, st, frame, first_dts) ==
    IF st.stream_type = GF_STREAM_VISUAL
    THEN [pid |-> i, dts |-> frame.dts - first_dts, cts |-> frame.cts,
          sap |-> IF frame.ftype = 1 THEN 1 ELSE 0]
    ELSE [pid |-> i, dts |-> -1, cts |-> frame.cts - first_dts, sap |-> 1]

\* the packet m2psdmx builds from a frame of stream i (NO_TS = -1: dts not
\* set).  The subtractions are unsigned 64-bit: a negative value n stands for
\* the wrapped value 2^64 + n
DmxPacket(i, st, frame, first_dts) ==
    IF st.stream_type = GF_STREAM_VISUAL
    THEN [pid |-> i, dts |-> frame.dts - first_dts, cts |-> frame.cts - first_dts,
          sap |-> IF frame.ftype = 1 THEN 1 ELSE 0]
    ELSE [pid |-> i, dts |-> -1, cts |-> frame.cts - first_dts, sap |-> 1]

\* faulty variant of the dispatch loop: a blocked stream counts as done
RECURSIVE DispatchStreamsCountBlocked(_, _, _, _, _)
DispatchStreamsCountBlocked(streams, i, blk, first_dts, acc) ==
    IF i > Len(streams) THEN acc
    ELSE LET st == streams[i]
         IN  IF ~st.in_use \/ i \in blk
             THEN DispatchStreamsCountBlocked(streams, i + 1, blk, first_dts,
                        [acc EXCEPT !.nb_done = @ + 1])
             ELSE IF ~HasFrame(acc.ps, st.stream_type, st.stream_num)
             THEN DispatchStreamsCountBlocked(streams, i + 1, blk, first_dts,
                        [acc EXCEPT !.nb_done = @ + 1, !.reads = @ \cup {i}])
             ELSE DispatchStreamsCountBlocked(streams, i + 1, blk, first_dts,
                        [ps |-> AdvanceCursor(acc.ps, st.stream_type, st.stream_num),
                         nb_done |-> acc.nb_done,
                         reads |-> acc.reads \cup {i},
                         sent |-> acc.sent \cup
                            {DmxPacket(i, st,
                                NextFrame(acc.ps, st.stream_type, st.stream_num),
                                first_dts)}])

\* the dispatch loop of m2psdmx_process; blk = pids for which
\* gf_filter_pid_would_block is true.  acc = [ps, nb_done, reads, sent]
RECURSIVE DispatchStreams(_, _, _, _, _)
DispatchStreams(streams, i, blk, first_dts, acc) ==
    IF i > Len(streams) THEN acc
    ELSE LET st == streams[i]
         IN  IF ~st.in_use
             THEN DispatchStreams(streams, i + 1, blk, first_dts,
                        [acc EXCEPT !.nb_done = @ + 1])
             ELSE IF i \in blk
             THEN DispatchStreams(streams, i + 1, blk, first_dts, acc)
             ELSE IF ~HasFrame(acc.ps, st.stream_type, st.stream_num)
             THEN DispatchStreams(streams, i + 1, blk, first_dts,
                        [acc EXCEPT !.nb_done = @ + 1, !.reads = @ \cup {i}])
             ELSE DispatchStreams(streams, i + 1, blk, first_dts,
                        [ps |-> AdvanceCursor(acc.ps, st.stream_type, st.stream_num),
                         nb_done |-> acc.nb_done,
                         reads |-> acc.reads \cup {i},
                         sent |-> acc.sent \cup
                            {DmxPacket(i, st,
                                NextFrame(acc.ps, st.stream_type, st.stream_num),
                                first_dts)}])

\* faulty variant of m2psdmx_process_play: in_seek is not cleared
m2psdmx_process_play_keeps_in_seek(c, k, blk) ==
    IF ~c.is_playing THEN [ctx |-> c, call |-> k, drop |-> FALSE]
    ELSE
    LET count == Len(c.streams)
        sk == IF c.in_seek
              THEN SeekStreams(c.streams, 1, 1000 * c.start_range,
                               [ps |-> c.ps, seeks |-> {}])
              ELSE [ps |-> c.ps, seeks |-> {}]
        d == DispatchStreams(c.streams, 1, blk, c.first_dts,
                             [ps |-> sk.ps, nb_done |-> 0, reads |-> {}, sent |-> {}])
        c1 == [c EXCEPT !.ps = d.ps]
        k1 == [k EXCEPT !.seeks = sk.seeks, !.reads = d.reads, !.sent = d.sent]
    IN  IF d.nb_done = count
        THEN [ctx |-> c1,
              call |-> [k1 EXCEPT !.eos = 1..count, !.dropped = 1, !.ret = GF_EOS],
              drop |-> TRUE]
        ELSE [ctx |-> c1, call |-> k1, drop |-> FALSE]

\* faulty variant of m2psdmx_process_play: the input packet is kept at EOS
m2psdmx_process_play_eos_keeps_packet(c, k, blk) ==
    IF ~c.is_playing THEN [ctx |-> c, call |-> k, drop |-> FALSE]
    ELSE
    LET count == Len(c.streams)
        sk == IF c.in_seek
              THEN SeekStreams(c.streams, 1, 1000 * c.start_range,
                               [ps |-> c.ps, seeks |-> {}])
              ELSE [ps |-> c.ps, seeks |-> {}]
        d == DispatchStreams(c.streams, 1, blk, c.first_dts,
                             [ps |-> sk.ps, nb_done |-> 0, reads |-> {}, sent |-> {}])
        c1 == [c EXCEPT !.ps = d.ps, !.in_seek = FALSE]
        k1 == [k EXCEPT !.seeks = sk.seeks, !.reads = d.reads, !.sent = d.sent]
    IN  IF d.nb_done = count
        THEN [ctx |-> c1,
              call |-> [k1 EXCEPT !.eos = 1..count, !.ret = GF_EOS],
              drop |-> FALSE]
        ELSE [ctx |-> c1, call |-> k1, drop |-> FALSE]

\* m2psdmx_process from the point where the source is open (c.ps /= NoHandle):
\* [ctx, call, drop]
m2psdmx_process_play(c, k, blk) ==
    IF ~c.is_playing THEN [ctx |-> c, call |-> k, drop |-> FALSE]
    ELSE
    LET count == Len(c.streams)
        sk == IF c.in_seek
              THEN SeekStreams(c.streams, 1, 1000 * c.start_range,
                               [ps |-> c.ps, seeks |-> {}])
              ELSE [ps |-> c.ps, seeks |-> {}]
        d == DispatchStreams(c.streams, 1, blk, c.first_dts,
                             [ps |-> sk.ps, nb_done |-> 0, reads |-> {}, sent |-> {}])
        c1 == [c EXCEPT !.ps = d.ps, !.in_seek = FALSE]
        k1 == [k EXCEPT !.seeks = sk.seeks, !.reads = d.reads, !.sent = d.sent]
    IN  IF d.nb_done = count
        THEN [ctx |-> c1,
              call |-> [k1 EXCEPT !.eos = 1..count, !.dropped = 1, !.ret = GF_EOS],
              drop |-> TRUE]
        ELSE [ctx |-> c1, call |-> k1, drop |-> FALSE]

\* faulty variant of m2psdmx_process: a failed open drops the input packet
m2psdmx_process_open_failure_drops(c, pck, blk) ==
    LET k == NoCall
    IN  IF ~pck THEN [ctx |-> c, call |-> k, drop |-> FALSE]
        ELSE IF c.ps = NoHandle
        THEN LET ps == mpeg2ps_init(c.src_url)
             IN  IF ps = NoHandle
                 THEN [ctx |-> c,
                       call |-> [k EXCEPT !.opened = TRUE, !.ret = GF_NOT_SUPPORTED,
                                    !.dropped = 1,
                                    !.failure = IF ~gf_file_exists(c.src_url)
                                                THEN GF_URL_ERROR
                                                ELSE GF_NON_COMPLIANT_BITSTREAM],
                       drop |-> TRUE]
                 ELSE LET su == m2psdmx_setup(c.streams, ps)
                      IN  m2psdmx_process_play(
                            [c EXCEPT !.ps = ps, !.streams = su.streams,
                                      !.first_dts = mpeg2ps_get_first_cts(ps)],
                            [k EXCEPT !.opened = TRUE, !.created = su.created],
                            blk)
        ELSE m2psdmx_process_play(c, k, blk)

\* m2psdmx_process: [ctx, call, drop]; pck = a packet is pending on the input pid
m2psdmx_process(c, pck, blk) ==
    LET k == NoCall
    IN  IF ~pck THEN [ctx |-> c, call |-> k, drop |-> FALSE]
        ELSE IF c.ps = NoHandle
        THEN LET ps == mpeg2ps_init(c.src_url)
             IN  IF ps = NoHandle
                 THEN [ctx |-> c,
                       call |-> [k EXCEPT !.opened = TRUE, !.ret = GF_NOT_SUPPORTED,
                                    !.failure = IF ~gf_file_exists(c.src_url)
                                                THEN GF_URL_ERROR
                                                ELSE GF_NON_COMPLIANT_BITSTREAM],
                       drop |-> FALSE]
                 ELSE LET su == m2psdmx_setup(c.streams, ps)
                      IN  m2psdmx_process_play(
                            [c EXCEPT !.ps = ps, !.streams = su.streams,
                                      !.first_dts = mpeg2ps_get_first_cts(ps)],
                            [k EXCEPT !.opened = TRUE, !.created = su.created],
                            blk)
        ELSE m2psdmx_process_play(c, k, blk)

\* seek history of the current play run (counts saturate at 2)
HistAfterProcess(h, seeks) ==
    [h EXCEPT !.seeks = [key \in StreamKeys |->
        IF \E s \in seeks : s[1] = key[1] /\ s[2] = key[2]
        THEN (IF h.seeks[key] < 2 THEN h.seeks[key] + 1 ELSE 2)
        ELSE h.seeks[key]]]

\* the sets of output pids that may report would-block during a process call:
\* any set of pids that exist when the call starts (a pid created during the
\* call has an empty queue)
BlockSets(c) == SUBSET (1..Len(c.streams))

\* the session runs process on a filter that has an input pid; blk is the set
\* of output pids whose queue is above the session's high-water mark
DmxProcess ==
    /\ filter = "m2psdmx"
    /\ ctx.ipid /= NULL
    /\ \E blk \in BlockSets(ctx) :
         LET r == m2psdmx_process(ctx, in_pck, blk)
         IN  /\ ctx' = r.ctx
             /\ in_pck' = (in_pck /\ ~r.drop)
             /\ hist' = [HistAfterProcess(hist, r.call.seeks)
                           EXCEPT !.failed = @ \/ r.call.failure /= NULL,
                                  !.handles = IF r.call.opened /\ r.ctx.ps /= NoHandle
                                              THEN @ + 1 ELSE @,
                                  !.records = @ + r.call.created]
    /\ UNCHANGED <<filter, ectx, epid>>


(***************************************************************************)
(* The libavcodec encoder, seen through the calls ffenc makes.             *)
(***************************************************************************)
AV_PIX_FMT_YUV420P == 0
AV_SAMPLE_FMT_S16 == 1

\* the encoders avcodec_find_encoder knows.  pix_fmts / sample_fmts: the list
\* of supported formats (<<>> when the codec declares none); frame_size: audio
\* samples per frame (0 = any); delay: frames the encoder holds back;
\* priming: how much earlier than the frame pts the first coded pts is
Codecs ==
    [id \in {"AVC", "AAC", "PCM"} |->
      CASE id = "AVC" -> [id |-> id, kind |-> GF_STREAM_VISUAL, fmts |-> <<1, 2>>,
                          frame_size |-> 0, delay |-> 1, priming |-> 0]
        [] id = "AAC" -> [id |-> id, kind |-> GF_STREAM_AUDIO, fmts |-> <<1>>,
                          frame_size |-> 2, delay |-> 1, priming |-> 1]
        [] OTHER      -> [id |-> id, kind |-> GF_STREAM_AUDIO, fmts |-> << >>,
                          frame_size |-> 0, delay |-> 0, priming |-> 0]]

\* ffmpeg_codecid_from_gpac: 0 when there is no mapping
ffmpeg_codecid_from_gpac(codecid) ==
    CASE codecid = "GF_CODECID_AVC" -> "AVC"
      [] codecid = "GF_CODECID_AAC" -> "AAC"
      [] codecid = "GF_CODECID_PCM" -> "PCM"
      [] OTHER -> "0"

\* the NULL AVCodec and AVCodecContext pointers
NoCodec ==
    [id |-> "0", kind |-> NULL, fmts |-> << >>, frame_size |-> 0, delay |-> 0,
     priming |-> 0]

NoEncoder == [codec |-> NoCodec, open |-> FALSE, queue |-> << >>]

\* avcodec_find_encoder
avcodec_find_encoder(codec_id) ==
    IF codec_id \in DOMAIN Codecs THEN Codecs[codec_id] ELSE NoCodec

\* gpac and libavcodec number pixel / sample formats differently
ffmpeg_fmt_from_gpac(fmt) == fmt - 10

ffmpeg_fmt_to_gpac(fmt) == fmt + 10

\* avcodec_alloc_context3 then (later) avcodec_open2
avcodec_alloc_context3(codec) == [codec |-> codec, open |-> FALSE, queue |-> << >>]

\* avcodec_encode_video2 / avcodec_encode_audio2 on frame pts (-1: NULL frame,
\* i.e. drain).  fail: the library reports an error for this call.
\* Result [enc, res, gotpck, pts].
avcodec_encode(enc, pts, fail) ==
    IF fail THEN [enc |-> enc, res |-> -1, gotpck |-> FALSE, pts |-> 0]
    ELSE IF pts = -1
    THEN IF enc.queue = << >>
         THEN [enc |-> enc, res |-> 0, gotpck |-> FALSE, pts |-> 0]
         ELSE [enc |-> [enc EXCEPT !.queue = Tail(@)], res |-> 0, gotpck |-> TRUE,
               pts |-> Head(enc.queue) - enc.codec.priming]
    ELSE LET q == Append(enc.queue, pts)
         IN  IF Len(q) > enc.codec.delay
             THEN [enc |-> [enc EXCEPT !.queue = Tail(q)], res |-> 0, gotpck |-> TRUE,
                   pts |-> Head(q) - enc.codec.priming]
             ELSE [enc |-> [enc EXCEPT !.queue = q], res |-> 0, gotpck |-> FALSE,
                   pts |-> 0]


(***************************************************************************)
(* ffenc: input configuration (ffenc_config_input).                        *)
(***************************************************************************)
EncInPids == {"in1", "in2"}

\* ffenc_initialize on a zeroed private block
EncCtxInit ==
    [initialized |-> TRUE, encoder |-> NoEncoder, in_pid |-> NULL, out_pid |-> NULL,
     type |-> NULL, timescale |-> 0, process |-> NULL, codecid |-> NULL,
     flush_done |-> FALSE, frame_pts |-> 0,
     width |-> 0, height |-> 0, pixel_fmt |-> 0,
     channels |-> 0, sample_rate |-> 0, bytes_per_sample |-> 0, sample_fmt |-> 0,
     bytes_in_audio_buffer |-> 0, first_byte_cts |-> 0, init_cts_setup |-> FALSE,
     ts_shift |-> 0,
     \* the heap pointers: TRUE = not NULL
     options |-> FALSE, frame |-> FALSE, enc_buffer |-> FALSE, audio_buffer |-> FALSE]

\* the properties of an input pid at configure time.  type / codecid_raw:
\* stream type and whether the codec id is GF_CODECID_RAW (NULL: no such
\* property); target: result of the caps query for the output codec id;
\* fmt: gpac pixel or audio format (0: absent); dims: width and height,
\* resp. sample rate and channels, are present; timescale: 0 = absent
ValidPidConfigs ==
    [type : {GF_STREAM_VISUAL}, codec_raw : {TRUE},
     target : {"GF_CODECID_AVC", NULL}, fmt : {10, 11},
     dims : {TRUE}, timescale : {0}]
    \cup
    [type : {GF_STREAM_AUDIO}, codec_raw : {TRUE}, target : {"GF_CODECID_PCM"},
     fmt : {10, 11}, dims : {TRUE}, timescale : {0}]
    \cup
    [type : {GF_STREAM_AUDIO}, codec_raw : {TRUE}, target : {"GF_CODECID_AAC"},
     fmt : {10, 11, 12}, dims : {TRUE}, timescale : {16}]

DefectPidConfigs ==
    { [type |-> t, codec_raw |-> r, target |-> "GF_CODECID_AAC", fmt |-> f,
       dims |-> d, timescale |-> 0] :
        <<t, r, f, d>> \in
          { <<NULL, TRUE, 11, TRUE>>, <<"GF_STREAM_SCENE", TRUE, 11, TRUE>>,
            <<GF_STREAM_AUDIO, FALSE, 11, TRUE>>, <<GF_STREAM_AUDIO, TRUE, 0, TRUE>>,
            <<GF_STREAM_AUDIO, TRUE, 11, FALSE>> } }

EncPidConfigs == ValidPidConfigs \cup DefectPidConfigs

\* a second pid, offered to an instance that already has its input pid
OtherPidConfigs ==
    { cfg \in ValidPidConfigs : cfg.fmt = 11 /\ cfg.timescale = 0 /\ cfg.target /= NULL }

\* the configurations during which a library call may fail: one per codec
FailingPidConfigs ==
    { cfg \in ValidPidConfigs : cfg.fmt = 11 /\ cfg.target /= NULL }

\* what a configure call is given: the pid, its properties, and the library
\* call that fails during the call, if any
ConfigureInputs ==
    ({"in1"} \X ValidPidConfigs \X {"ok"})
    \cup ({"in1"} \X FailingPidConfigs \X {"alloc", "open"})
    \cup ({"in1"} \X DefectPidConfigs \X {"ok"})
    \cup ({"in2"} \X OtherPidConfigs \X {"ok"})

\* property values carried by every input pid that has them
PidProps ==
    [width |-> 4, height |-> 2, sample_rate |-> 8, channels |-> 1, bits |-> 16]

\* the format check of ffenc_config_input: the value change_input_fmt has
\* after the search loop over the codec's format list
SearchFormat(fmts, fmt) ==
    IF \E i \in 1..Len(fmts) : fmts[i] = fmt THEN fmt ELSE 0

\* the format negotiated when the input format was not found
FirstFormat(fmts, dflt) == IF fmts /= << >> THEN fmts[1] ELSE dflt

\* ffenc_config_input, connect / reconfigure.  lib: "ok", or the library call
\* that fails ("alloc", "open").  Result [ctx, ret, negotiate (0: none),
\* created, closed, opened (an encoder context was allocated and avcodec_open2
\* called on it), lost (buffers whose pointer was overwritten)]
ffenc_config_input(c, pid, cfg, lib) ==
    LET R(cx, ret) == [ctx |-> cx, ret |-> ret, negotiate |-> 0, created |-> 0,
                       closed |-> 0, opened |-> FALSE, lost |-> {}]
        c1 == IF cfg.target /= NULL THEN [c EXCEPT !.codecid = cfg.target] ELSE c
        c2 == [c1 EXCEPT !.in_pid = pid, !.type = IF @ = NULL THEN cfg.type ELSE @]
        c3 == IF cfg.type = GF_STREAM_VISUAL
              THEN [c2 EXCEPT !.width = PidProps.width, !.height = PidProps.height]
              ELSE [c2 EXCEPT !.sample_rate = PidProps.sample_rate, !.channels = PidProps.channels]
        codec_id == ffmpeg_codecid_from_gpac(c3.codecid)
        had_enc == c3.encoder /= NoEncoder
        c4 == [c3 EXCEPT !.encoder = NoEncoder]
        nclosed == IF had_enc THEN 1 ELSE 0
        codec == avcodec_find_encoder(codec_id)
        ffmt == ffmpeg_fmt_from_gpac(cfg.fmt)
        fmts == IF codec.kind = cfg.type THEN codec.fmts ELSE << >>
        change_input_fmt == SearchFormat(fmts, ffmt)
        newfmt == FirstFormat(fmts, IF cfg.type = GF_STREAM_VISUAL
                                    THEN AV_PIX_FMT_YUV420P ELSE AV_SAMPLE_FMT_S16)
        c5 == IF cfg.type = GF_STREAM_VISUAL
              THEN [c4 EXCEPT !.pixel_fmt = IF ffmt /= change_input_fmt THEN newfmt ELSE ffmt]
              ELSE [c4 EXCEPT !.sample_fmt = IF ffmt /= change_input_fmt THEN newfmt ELSE ffmt]
        enc == avcodec_alloc_context3(codec)
        \* gf_malloc into a pointer that still holds the previous buffer
        lost == (IF c5.enc_buffer THEN {"enc_buffer"} ELSE {})
                \cup (IF cfg.type = GF_STREAM_AUDIO /\ c5.audio_buffer
                      THEN {"audio_buffer"} ELSE {})
        c6 == IF cfg.type = GF_STREAM_VISUAL
              THEN [c5 EXCEPT !.encoder = enc, !.process = "ffenc_process_video",
                              !.frame = TRUE, !.enc_buffer = TRUE]
              ELSE [c5 EXCEPT !.encoder = enc, !.process = "ffenc_process_audio",
                              !.options = TRUE, !.frame = TRUE,
                              !.enc_buffer = TRUE, !.audio_buffer = TRUE,
                              !.timescale = IF cfg.timescale /= 0 THEN cfg.timescale
                                            ELSE c5.sample_rate,
                              !.bytes_in_audio_buffer = 0,
                              !.bytes_per_sample = (c5.channels * PidProps.bits) \div 8,
                              !.init_cts_setup = TRUE]
        c7 == [c6 EXCEPT !.encoder.open = TRUE, !.in_pid = pid,
                         !.out_pid = IF @ = NULL THEN "out" ELSE @]
    IN
    IF cfg.type = NULL THEN R(c, GF_NOT_SUPPORTED)
    ELSE IF cfg.type \notin {GF_STREAM_AUDIO, GF_STREAM_VISUAL} THEN R(c, GF_NOT_SUPPORTED)
    ELSE IF ~cfg.codec_raw THEN R(c, GF_NOT_SUPPORTED)
    ELSE IF c1.in_pid /= NULL /\ c1.in_pid /= pid THEN R(c1, GF_REQUIRES_NEW_INSTANCE)
    ELSE IF c1.type /= NULL /\ c1.type /= cfg.type THEN R([c1 EXCEPT !.in_pid = pid], GF_NOT_SUPPORTED)
    ELSE IF ~cfg.dims THEN R(c2, GF_NON_COMPLIANT_BITSTREAM)
    ELSE IF cfg.fmt = 0 THEN R(c3, GF_NON_COMPLIANT_BITSTREAM)
    ELSE IF had_enc /\ c3.encoder.codec.id /= codec_id THEN R(c3, GF_NOT_SUPPORTED)
    ELSE IF codec = NoCodec THEN [R(c4, GF_NOT_SUPPORTED) EXCEPT !.closed = nclosed]
    ELSE IF ffmt /= change_input_fmt
         THEN [R(c5, GF_OK) EXCEPT !.closed = nclosed,
                                   !.negotiate = ffmpeg_fmt_to_gpac(newfmt)]
    ELSE IF lib = "alloc"
         THEN [R(c5, GF_OUT_OF_MEM) EXCEPT !.closed = nclosed]
    ELSE IF lib = "open"
         THEN [R(c6, GF_NON_COMPLIANT_BITSTREAM) EXCEPT !.closed = nclosed,
                                                        !.opened = TRUE,
                                                        !.lost = lost]
    ELSE [R(c7, GF_OK) EXCEPT !.closed = nclosed, !.opened = TRUE, !.lost = lost,
                              !.created = IF c6.out_pid = NULL THEN 1 ELSE 0]


(***************************************************************************)
(* ffenc: processing (ffenc_process, ffenc_process_video / _audio).        *)
(* q: the packets pending on the input pid; is_eos: gf_filter_pid_is_eos;  *)
(* fail: "none", or the library call that fails in this invocation         *)
(* ("fill": avcodec_fill_audio_frame, "encode": the encode call), or       *)
(* "fault": a copy outside the audio buffer, if the call makes one, faults *)
(* An input packet is [cts, size, data]; data is "data" (a buffer) or     *)
(* "none" (no payload can be fetched).  Result [ctx, call, drop].         *)
(***************************************************************************)
\* the packet ffenc builds from a coded unit
EncPacket(pts, shift) == [pid |-> 0, dts |-> pts + shift, cts |-> pts + shift, sap |-> 1]

\* dereference of a NULL encoder: the invocation faults
EncFault(c, k) == [ctx |-> c, call |-> [k EXCEPT !.ret = "FAULT"], drop |-> 0]

\* the accesses to the input packet up to the point a path has reached
PckOps(has, ops) == IF has THEN <<"get">> \o ops ELSE << >>

\* an encoder context that was never opened rejects every submission
EncodeFails(c, fail) == fail = "encode" \/ ~c.encoder.open

\* faulty variant of ffenc_process_video: an encode error ends the stream
ffenc_process_video_error_ends_stream(c, k, q, is_eos, fail) ==
    LET has == q /= << >>
        pck == Head(q)
    IN
    IF ~has /\ c.flush_done /\ ~is_eos THEN [ctx |-> c, call |-> k, drop |-> 0]
    ELSE IF has /\ pck.data = "none"
    THEN [ctx |-> c,
          call |-> [k EXCEPT !.ret = GF_NOT_SUPPORTED, !.dropped = 1,
                             !.pck_ops = <<"get", "data", "drop">>],
          drop |-> 1]
    ELSE IF c.encoder = NoEncoder
    THEN EncFault(c, [k EXCEPT !.pck_ops = PckOps(has, <<"data", "cts">>)])
    ELSE
    LET pts == IF has THEN pck.cts ELSE -1
        r == avcodec_encode(c.encoder, pts, EncodeFails(c, fail))
        c1 == [c EXCEPT !.encoder = r.enc, !.frame_pts = IF has THEN pck.cts ELSE @]
        nd == IF has THEN 1 ELSE 0
        k1 == [k EXCEPT !.submits = <<pts>>, !.dropped = nd,
                        !.pck_ops = PckOps(has, <<"data", "cts", "payload", "drop">>)]
    IN  IF ~has /\ ~r.gotpck
        THEN [ctx |-> [c1 EXCEPT !.flush_done = TRUE],
              call |-> [k1 EXCEPT !.eos = {0}, !.ret = GF_EOS], drop |-> nd]
        ELSE IF r.res < 0
        THEN [ctx |-> [c1 EXCEPT !.flush_done = TRUE],
              call |-> [k1 EXCEPT !.eos = {0}, !.ret = GF_SERVICE_ERROR], drop |-> nd]
        ELSE IF ~r.gotpck
        THEN [ctx |-> c1, call |-> k1, drop |-> nd]
        ELSE [ctx |-> c1, call |-> [k1 EXCEPT !.sent = {EncPacket(r.pts, 0)}],
              drop |-> nd]

\* ffenc_process_video
ffenc_process_video(c, k, q, is_eos, fail) ==
    LET has == q /= << >>
        pck == Head(q)
    IN
    IF ~has /\ c.flush_done /\ ~is_eos THEN [ctx |-> c, call |-> k, drop |-> 0]
    ELSE IF has /\ pck.data = "none"
    THEN [ctx |-> c,
          call |-> [k EXCEPT !.ret = GF_NOT_SUPPORTED, !.dropped = 1,
                             !.pck_ops = <<"get", "data", "drop">>],
          drop |-> 1]
    ELSE IF c.encoder = NoEncoder
    THEN EncFault(c, [k EXCEPT !.pck_ops = PckOps(has, <<"data", "cts">>)])
    ELSE
    LET pts == IF has THEN pck.cts ELSE -1
        r == avcodec_encode(c.encoder, pts, EncodeFails(c, fail))
        c1 == [c EXCEPT !.encoder = r.enc, !.frame_pts = IF has THEN pck.cts ELSE @]
        nd == IF has THEN 1 ELSE 0
        k1 == [k EXCEPT !.submits = <<pts>>, !.dropped = nd,
                        !.pck_ops = PckOps(has, <<"data", "cts", "payload", "drop">>)]
    IN  IF ~has /\ ~r.gotpck
        THEN [ctx |-> [c1 EXCEPT !.flush_done = TRUE],
              call |-> [k1 EXCEPT !.eos = {0}, !.ret = GF_EOS], drop |-> nd]
        ELSE IF r.res < 0
        THEN [ctx |-> c1, call |-> [k1 EXCEPT !.ret = GF_SERVICE_ERROR], drop |-> nd]
        ELSE IF ~r.gotpck
        THEN [ctx |-> c1, call |-> k1, drop |-> nd]
        ELSE [ctx |-> c1, call |-> [k1 EXCEPT !.sent = {EncPacket(r.pts, 0)}],
              drop |-> nd]

\* the timestamp of the first byte left in the audio buffer
NextByteCts(c, pck, nb_copy) ==
    pck.cts + ((nb_copy \div c.bytes_per_sample) * c.timescale) \div c.sample_rate

ffenc_process_audio(c, k, q, is_eos, fail) ==
    LET has == q /= << >>
        pck == Head(q)
    IN
    IF ~has /\ c.flush_done /\ ~is_eos THEN [ctx |-> c, call |-> k, drop |-> 0]
    ELSE IF has /\ pck.data = "none"
    THEN [ctx |-> c,
          call |-> [k EXCEPT !.dropped = 1, !.pck_ops = <<"get", "data", "drop">>],
          drop |-> 1]
    ELSE IF c.encoder = NoEncoder
    THEN EncFault(c, [k EXCEPT !.pck_ops =
                         PckOps(has, IF c.bytes_in_audio_buffer = 0
                                     THEN <<"data", "cts">> ELSE <<"data">>)])
    ELSE
    LET fs == c.encoder.codec.frame_size
        fb == c.bytes_per_sample * fs
        ca == IF has /\ c.bytes_in_audio_buffer = 0
              THEN [c EXCEPT !.first_byte_cts = pck.cts] ELSE c
        nb_copy == IF has /\ fs /= 0 THEN fb - ca.bytes_in_audio_buffer ELSE 0
        size == IF has /\ fs /= 0 THEN pck.size - nb_copy ELSE 0
        \* state after the remainder of the packet was stored
        Rest(cx) == IF size /= 0
                    THEN [cx EXCEPT !.bytes_in_audio_buffer = size,
                                    !.first_byte_cts = NextByteCts(cx, pck, nb_copy)]
                    ELSE [cx EXCEPT !.bytes_in_audio_buffer = size]
        nd == IF has THEN 1 ELSE 0
        \* the accesses before the frame is filled, and those that store the
        \* remainder of the packet
        head == IF c.bytes_in_audio_buffer = 0 THEN <<"data", "cts">> ELSE <<"data">>
        rest == IF size /= 0 THEN <<"payload", "cts">> ELSE << >>
    IN
    IF has /\ fs /= 0 /\ pck.size + ca.bytes_in_audio_buffer < fb
    THEN [ctx |-> [ca EXCEPT !.bytes_in_audio_buffer = @ + pck.size],
          call |-> [k EXCEPT !.dropped = 1,
                             !.pck_ops = PckOps(has, head \o <<"payload", "drop">>)],
          drop |-> 1]
    ELSE IF has /\ fail = "fault" /\ (nb_copy < 0 \/ size > ca.sample_rate)
    THEN \* nb_copy is unsigned: fb - bytes_in_audio_buffer wraps when the buffer
         \* holds more than a frame and the copy runs far past the buffer; a
         \* remainder above audio_buffer_size (= sample_rate bytes) is copied
         \* past its end.  The invocation may fault or go on
         EncFault(ca, [k EXCEPT !.pck_ops = PckOps(has, head \o <<"payload">>)])
    ELSE IF has /\ fail = "fill"
    THEN [ctx |-> Rest(ca),
          call |-> [k EXCEPT !.dropped = 1, !.ret = GF_SERVICE_ERROR,
                             !.pck_ops = PckOps(has, head \o <<"payload">> \o rest
                                                     \o <<"drop">>)],
          drop |-> 1]
    ELSE
    LET pts == IF has THEN ca.first_byte_cts ELSE -1
        r == avcodec_encode(ca.encoder, pts, EncodeFails(ca, fail))
        cb == [ca EXCEPT !.encoder = r.enc, !.frame_pts = IF has THEN pts ELSE @]
        k1 == [k EXCEPT !.submits = <<pts>>, !.dropped = nd,
                        !.pck_ops = PckOps(has, head \o <<"payload">> \o rest
                                                \o <<"drop">>)]
    IN  IF ~has /\ ~r.gotpck
        THEN [ctx |-> [cb EXCEPT !.flush_done = TRUE],
              call |-> [k1 EXCEPT !.eos = {0}, !.ret = GF_EOS], drop |-> 0]
        ELSE
        LET cc == IF has THEN Rest(cb) ELSE cb
        IN  IF r.res < 0
            THEN [ctx |-> cc, call |-> [k1 EXCEPT !.ret = GF_SERVICE_ERROR], drop |-> nd]
            ELSE IF ~r.gotpck
            THEN [ctx |-> cc, call |-> k1, drop |-> nd]
            ELSE
            LET shift == IF cc.init_cts_setup /\ cc.frame_pts /= r.pts
                         THEN cc.frame_pts - r.pts ELSE cc.ts_shift
                cd == [cc EXCEPT !.init_cts_setup = FALSE, !.ts_shift = shift]
                skip == IF cc.init_cts_setup /\ shift /= 0
                        THEN (shift * cc.sample_rate) \div cc.timescale
                        ELSE -1
            IN  [ctx |-> cd,
                 call |-> [k1 EXCEPT !.sent = {EncPacket(r.pts, shift)},
                                     !.skip = skip],
                 drop |-> nd]

\* faulty variant of ffenc_process: the would-block test is missing
ffenc_process_ignoring_block(c, q, is_eos, blk, fail) ==
    LET k == NoCall
    IN  IF c.process = "ffenc_process_video"
        THEN ffenc_process_video(c, k, q, is_eos, fail)
        ELSE ffenc_process_audio(c, k, q, is_eos, fail)

\* ffenc_process: nothing is done while the output pid would block
ffenc_process(c, q, is_eos, blk, fail) ==
    LET k == NoCall
    IN  IF blk THEN [ctx |-> c, call |-> k, drop |-> 0]
        ELSE IF c.process = "ffenc_process_video"
        THEN ffenc_process_video(c, k, q, is_eos, fail)
        ELSE ffenc_process_audio(c, k, q, is_eos, fail)


(***************************************************************************)
(* ffenc callbacks as the session invokes them.                            *)
(***************************************************************************)
\* packets the upstream filter dispatches in total
MaxPackets == 2

\* the input packets: payload size in bytes and payload kind
InPackets ==
    [size : {2, 4, 10}, data : {"data"}] \cup [size : {2}, data : {"none"}]

\* session side of the pids of ffenc: the connected input pid, the packet at
\* the head of its queue (<<>> when none is pending), its end-of-stream flag,
\* and the state of the output pid ("none", "live", "removed")
EncPidInit ==
    [in |-> NULL, queue |-> << >>, eos |-> FALSE, nsent |-> 0,
     out |-> "none", out_eos |-> FALSE, skip |-> -1]

\* ffenc_config_input, is_remove branch: the context is left as it is
ffenc_remove(c) == c

EncConfigure(pid, cfg, lib) ==
    /\ filter = "ffenc"
    /\ pid = "in2" => ectx.in_pid = "in1"
    /\ LET r == ffenc_config_input(ectx, pid, cfg, lib)
       IN  /\ ectx' = r.ctx
           /\ epid' = [epid EXCEPT
                        !.in = IF r.ret = GF_OK THEN pid ELSE @,
                        !.out = IF r.created = 1 THEN "live" ELSE @]
           /\ hist' = [hist EXCEPT
                        !.configured = @ \/ r.ret = GF_OK,
                        !.handles = (@ - r.closed) + (IF r.opened THEN 1 ELSE 0),
                        !.lost = @ \cup r.lost]
    /\ UNCHANGED <<filter, ctx, in_pck>>

EncRemove ==
    /\ filter = "ffenc"
    /\ epid.in /= NULL
    /\ ectx' = ffenc_remove(ectx)
    /\ epid' = [epid EXCEPT !.in = NULL, !.queue = << >>, !.eos = FALSE,
                            !.out = IF ectx.out_pid /= NULL THEN "removed" ELSE @]
    /\ UNCHANGED <<filter, ctx, in_pck, hist>>

\* the next packet reaches the head of the input queue
EncUpstreamSend(p) ==
    /\ filter = "ffenc"
    /\ epid.in /= NULL
    /\ ~epid.eos
    /\ epid.queue = << >>
    /\ epid.nsent < MaxPackets
    /\ epid' = [epid EXCEPT
                 !.queue = << [cts |-> 4 * (epid.nsent + 1), size |-> p.size,
                               data |-> p.data] >>,
                 !.nsent = @ + 1]
    /\ UNCHANGED <<filter, ctx, in_pck, ectx, hist>>

EncUpstreamEOS ==
    /\ filter = "ffenc"
    /\ epid.in /= NULL
    /\ ~epid.eos
    /\ epid' = [epid EXCEPT !.eos = TRUE]
    /\ UNCHANGED <<filter, ctx, in_pck, ectx, hist>>

\* gf_filter_pid_is_eos on the input pid
InputIsEos(e) == e.eos /\ e.queue = << >>

\* the session may run process once a configure call has set the process
\* handler and declared the output pid, while the input pid is connected
EncCanProcess == epid.in /= NULL /\ ectx.process /= NULL /\ ectx.out_pid /= NULL

ProcessInputs == BOOLEAN \X {"none", "fill", "encode", "fault"}

EncProcess(blk, fail) ==
    /\ filter = "ffenc"
    /\ EncCanProcess
    /\ LET r == ffenc_process(ectx, epid.queue, InputIsEos(epid), blk, fail)
       IN  /\ ectx' = r.ctx
           /\ epid' = [epid EXCEPT
                        !.queue = IF r.drop > 0 THEN << >> ELSE @,
                        !.out_eos = @ \/ r.call.eos /= {},
                        !.skip = IF r.call.skip /= -1 THEN r.call.skip ELSE @]
    /\ UNCHANGED <<filter, ctx, in_pck, hist>>

(***************************************************************************)
(* finalize of both filters: what is closed and freed.                     *)
(***************************************************************************)
\* m2psdmx_finalize: every stream record is popped and freed, the list is
\* deleted, the handle is closed if there is one
m2psdmx_finalize(c) ==
    [freed |-> Len(c.streams), closed |-> IF c.ps /= NoHandle THEN 1 ELSE 0]

\* ffenc_finalize: each pointer that is not NULL is freed, the encoder is
\* closed if there is one
ffenc_finalize(c) ==
    [freed |-> {k \in {"options", "frame", "enc_buffer", "audio_buffer"} : c[k]},
     closed |-> IF c.encoder /= NoEncoder THEN 1 ELSE 0]

\* the session destroys the filter (possible in every state, also before any
\* configure); the private block is gone afterwards
Finalize ==
    /\ filter \in {"m2psdmx", "ffenc"}
    /\ filter' = "finalized"
    /\ ctx' = DmxCtxInit /\ in_pck' = FALSE
    /\ ectx' = EncCtxInit /\ epid' = EncPidInit
    /\ hist' = IF filter = "m2psdmx"
               THEN LET r == m2psdmx_finalize(ctx)
                    IN  [NoHist EXCEPT !.handles = hist.handles - r.closed,
                                       !.records = hist.records - r.freed,
                                       !.lost = hist.lost]
               ELSE LET r == ffenc_finalize(ectx)
                    IN  [NoHist EXCEPT
                           !.handles = hist.handles - r.closed,
                           !.lost = hist.lost \cup
                                    ({k \in {"options", "frame", "enc_buffer",
                                             "audio_buffer"} : ectx[k]} \ r.freed)]

(***************************************************************************)
(* The specification.                                                      *)
(***************************************************************************)
Init ==
    /\ filter \in {"m2psdmx", "ffenc"}
    /\ ctx = DmxCtxInit
    /\ in_pck = FALSE
    /\ ectx = EncCtxInit
    /\ epid = EncPidInit
    /\ hist = NoHist

Next ==
    \/ \E caps_ok \in BOOLEAN, path \in Paths \cup {NULL} : DmxConfigure(caps_ok, path)
    \/ DmxRemove
    \/ DmxUpstreamSend
    \/ \E type \in EventTypes, x \in 0..MaxStart : DmxEvent(type, x)
    \/ DmxProcess
    \/ \E i \in ConfigureInputs : EncConfigure(i[1], i[2], i[3])
    \/ EncRemove
    \/ \E p \in InPackets : EncUpstreamSend(p)
    \/ EncUpstreamEOS
    \/ Finalize
    \/ \E i \in ProcessInputs : EncProcess(i[1], i[2])

Spec == Init /\ [][Next]_vars


(***************************************************************************)
(* Properties.  A property of one callback is stated over every reachable  *)
(* state in which the session may make the call and over every input of    *)
(* the call: the callback's operator is applied to the state and its       *)
(* result is compared with what the property requires.                     *)
(***************************************************************************)
\* m2psdmx is loaded and the session may run its process callback
DmxCanProcess == filter = "m2psdmx" /\ ctx.ipid /= NULL

\* ffenc is loaded and the session may run its process callback
EncMayProcess == filter = "ffenc" /\ EncCanProcess

\* indices of the streams of a context that are in use
InUse(c) == {i \in 1..Len(c.streams) : c.streams[i].in_use}

\* a process call did nothing that can be seen from outside the filter
NoOp(r, c) == r.ctx = c /\ r.call = NoCall

\* C1: in m2psdmx_process and in ffenc_process, when the input pid holds no
\* packet and is not at end of stream, the call returns GF_OK and does
\* nothing: no packet sent, no pid marked EOS, no demux or encoder call, and
\* the private state (flush_done included) is unchanged.
C1_IdleProcessIsNoOp ==
    /\ DmxCanProcess /\ ~in_pck =>
         \A blk \in BlockSets(ctx) :
            LET r == m2psdmx_process(ctx, in_pck, blk)
            IN  NoOp(r, ctx) /\ ~r.drop
    /\ EncMayProcess /\ epid.queue = << >> /\ ~epid.eos =>
         \A i \in ProcessInputs :
            LET r == ffenc_process(ectx, epid.queue, InputIsEos(epid), i[1], i[2])
            IN  NoOp(r, ectx) /\ r.drop = 0

\* C2: when ffenc_process is called while the output pid would block, it
\* returns GF_OK, leaves the pending input packet on the input pid, sends
\* nothing, makes no encoder call and changes no field of the private state
\* (bytes_in_audio_buffer, first_byte_cts, ts_shift, flush_done included).
C2_BlockedEncoderDefers ==
    EncMayProcess =>
        \A fail \in {"none", "fill", "encode"} :
            LET r == ffenc_process(ectx, epid.queue, InputIsEos(epid), TRUE, fail)
            IN  /\ r.call.ret = GF_OK
                /\ r.drop = 0
                /\ r.call.dropped = 0
                /\ r.call.sent = {}
                /\ r.call.submits = << >>
                /\ r.call.eos = {}
                /\ r.ctx = ectx

\* C2 witness: a packet is pending which an unblocked call would consume and
\* encode into an output packet, and audio bytes are buffered.
C2_Witness ==
    /\ EncMayProcess
    /\ epid.queue /= << >>
    /\ ectx.bytes_in_audio_buffer > 0
    /\ LET r == ffenc_process(ectx, epid.queue, InputIsEos(epid), FALSE, "none")
       IN  r.drop = 1 /\ r.call.sent /= {} /\ r.ctx /= ectx

\* the dispatch loop of a process call was entered
ReachedDispatch(c, pck, r) == pck /\ r.ctx.ps /= NoHandle /\ c.is_playing

\* C3: in m2psdmx_process, for every in-use stream whose output pid would
\* block no frame is read and no packet is sent on that pid, while the other
\* in-use streams are still read; a call in which some in-use stream was
\* skipped for backpressure marks no EOS, does not drop the input packet and
\* does not return GF_EOS.
C3_BlockedStreamsAreSkipped ==
    DmxCanProcess =>
        \A blk \in BlockSets(ctx) :
            LET r == m2psdmx_process(ctx, in_pck, blk)
                used == InUse(r.ctx)
            IN  /\ \A i \in used \cap blk :
                      /\ i \notin r.call.reads
                      /\ \A p \in r.call.sent : p.pid /= i
                /\ ReachedDispatch(ctx, in_pck, r) =>
                      \A i \in used \ blk : i \in r.call.reads
                /\ used \cap blk /= {} =>
                      /\ r.call.eos = {}
                      /\ r.call.dropped = 0
                      /\ ~r.drop
                      /\ r.call.ret /= GF_EOS

\* C3 witness: playing an open source whose unblocked streams are all
\* exhausted while a blocked in-use stream still has a frame; another in-use
\* stream being unblocked, the call reads it.
C3_Witness ==
    /\ DmxCanProcess /\ in_pck /\ ctx.ps /= NoHandle /\ ctx.is_playing
    /\ \E blk \in BlockSets(ctx) :
          LET r == m2psdmx_process(ctx, in_pck, blk)
          IN  /\ InUse(ctx) \cap blk /= {}
              /\ InUse(ctx) \ blk /= {}
              /\ r.call.reads /= {}
              /\ r.call.sent = {}
              /\ \E i \in InUse(ctx) \cap blk :
                    HasFrame(ctx.ps, ctx.streams[i].stream_type, ctx.streams[i].stream_num)

\* the seek calls that bring every in-use stream of c to 1000 * start_range ms
SeeksOfAll(c) ==
    {<<c.streams[i].stream_type, c.streams[i].stream_num, 1000 * c.start_range>> :
        i \in InUse(c)}

\* C4: a PLAY event whose start_range equals the current one, received while
\* is_playing is set, is cancelled and changes nothing in the private state
\* (the pending-seek flag is not set); in a run PLAY(x), process calls and
\* further PLAY(x) events, with no STOP and no other PLAY, each stream is
\* seeked at most once.
C4_ReplayedPlayDoesNotSeekAgain ==
    filter = "m2psdmx" =>
        /\ \A x \in 0..MaxStart :
              ctx.is_playing /\ ctx.start_range = x =>
                 LET e == m2psdmx_process_event(ctx, "GF_FEVT_PLAY", x)
                 IN  e.cancel /\ e.ctx = ctx
        /\ \A key \in StreamKeys : hist.seeks[key] <= 1

\* C4 witness: within a play run a stream was seeked, no seek is pending, and
\* the same PLAY can be replayed while streams with frames are in use.
C4_Witness ==
    /\ filter = "m2psdmx"
    /\ ctx.is_playing /\ ~ctx.in_seek /\ ctx.ps /= NoHandle /\ in_pck
    /\ hist.run_x = ctx.start_range
    /\ \E i \in InUse(ctx) :
          hist.seeks[<<ctx.streams[i].stream_type, ctx.streams[i].stream_num>>] = 1

\* what a PLAY event that is not a replay leaves in the private state
AfterNewPlay(c, x) ==
    [c EXCEPT !.start_range = x, !.is_playing = TRUE, !.in_seek = TRUE]

\* the first frames of a stream after a seek to msec, as sent by m2psdmx
FrameAfterSeek(c, i, msec) ==
    LET st == c.streams[i]
        frames == FramesOf(c.ps, st.stream_num)
    IN  frames[SeekIndex(frames, msec) + 1]

\* a call that seeked: every in-use stream was seeked to the PLAY offset, the
\* flag is cleared, and the packets sent are the frames the seek led to
SeekedAll(c, r) ==
    /\ ~r.ctx.in_seek
    /\ r.call.seeks = SeeksOfAll(r.ctx)
    /\ \A p \in r.call.sent :
          p.cts = FrameAfterSeek(r.ctx, p.pid, 1000 * c.start_range).cts
                    - r.ctx.first_dts

\* C5 as stated: a PLAY with a new offset (or while not playing) seeks
\* nothing inside process_event and sets the pending-seek flag; the next
\* m2psdmx_process call consumes the flag: it seeks every in-use stream to
\* 1000 * start_range ms before sending any packet and clears the flag.
C5_NextProcessSeeks ==
    filter = "m2psdmx" =>
        /\ \A x \in 0..MaxStart :
              ~(ctx.is_playing /\ ctx.start_range = x) =>
                 m2psdmx_process_event(ctx, "GF_FEVT_PLAY", x).ctx = AfterNewPlay(ctx, x)
        /\ DmxCanProcess /\ ctx.in_seek =>
              \A blk \in BlockSets(ctx) :
                 SeekedAll(ctx, m2psdmx_process(ctx, in_pck, blk))

\* C5, amended: a PLAY with a new offset (or while not playing) seeks nothing
\* inside process_event and sets the pending-seek flag; start_range is the
\* offset of the most recent PLAY; the flag is consumed by the first
\* m2psdmx_process call that finds an input packet, has the source open and
\* finds is_playing set: that call seeks every in-use stream to
\* 1000 * start_range ms before sending any packet and clears the flag.  A
\* call that returns before that point seeks nothing and leaves the flag
\* set, and no call seeks when the flag is not set.
C5_PendingSeekIsConsumedByDispatch ==
    filter = "m2psdmx" =>
        /\ \A x \in 0..MaxStart :
              ~(ctx.is_playing /\ ctx.start_range = x) =>
                 m2psdmx_process_event(ctx, "GF_FEVT_PLAY", x).ctx = AfterNewPlay(ctx, x)
        /\ hist.run_x /= -1 => ctx.start_range = hist.run_x
        /\ DmxCanProcess =>
              \A blk \in BlockSets(ctx) :
                 LET r == m2psdmx_process(ctx, in_pck, blk)
                 IN  IF ~ctx.in_seek THEN r.call.seeks = {}
                     ELSE IF ReachedDispatch(ctx, in_pck, r) THEN SeekedAll(ctx, r)
                     ELSE r.ctx.in_seek /\ r.call.seeks = {}

\* C5 witness: a PLAY to a non-zero offset is pending on an open source whose
\* streams were read before, and the process call that consumes it seeks.
C5_Witness ==
    /\ DmxCanProcess /\ ctx.in_seek /\ in_pck /\ ctx.is_playing
    /\ ctx.ps /= NoHandle /\ ctx.start_range > 0
    /\ \E i \in InUse(ctx) :
          CursorOf(ctx.ps, ctx.streams[i].stream_type, ctx.streams[i].stream_num) > 0
    /\ m2psdmx_process(ctx, in_pck, {}).call.seeks /= {}

\* C6: after a STOP event is_playing is false at once, and until the next
\* PLAY event no m2psdmx_process call seeks, reads a frame, sends a packet,
\* marks a pid EOS or drops the input packet.
C6_StoppedFilterIsQuiet ==
    filter = "m2psdmx" /\ hist.stopped =>
        /\ ~ctx.is_playing
        /\ DmxCanProcess =>
              \A blk \in BlockSets(ctx) :
                 LET r == m2psdmx_process(ctx, in_pck, blk)
                 IN  /\ r.call.seeks = {}
                     /\ r.call.reads = {}
                     /\ r.call.sent = {}
                     /\ r.call.eos = {}
                     /\ r.call.dropped = 0
                     /\ ~r.drop
                     /\ r.ctx.ps = (IF ctx.ps = NoHandle THEN r.ctx.ps ELSE ctx.ps)

\* C6 witness: stopped while a seek is pending and an in-use stream of the
\* open source still has a frame to send, with an input packet pending.
C6_Witness ==
    /\ DmxCanProcess /\ hist.stopped /\ in_pck /\ ctx.ps /= NoHandle /\ ctx.in_seek
    /\ \E i \in InUse(ctx) :
          HasFrame(ctx.ps, ctx.streams[i].stream_type, ctx.streams[i].stream_num)

\* C7: configure_pid with is_remove set, in any play state, tears down every
\* output pid and releases all per-source state: m2psdmx is left with an
\* empty stream list, a closed demux handle and no recorded source; ffenc is
\* left with no reference to the removed output pid, to the removed input
\* pid or to its encoder.
C7_RemoveReleasesEverything ==
    /\ DmxCanProcess =>
         LET c == m2psdmx_remove(ctx)
         IN  c.streams = << >> /\ c.ps = NoHandle /\ c.src_url = NULL
    /\ filter = "ffenc" /\ epid.in /= NULL =>
         LET c == ffenc_remove(ectx)
         IN  c.out_pid = NULL /\ c.in_pid = NULL /\ c.encoder = NoEncoder

\* C8: a configure_pid call (not a removal) with a file path other than the
\* recorded one, made while the demux handle is open, closes the handle once
\* and clears it, marks every stream not in use, removes and creates no
\* output pid, records the new path and does not open the new source, which
\* a later process call opens.  With the recorded path it leaves the handle
\* and every in_use flag as they are.
C8_ChangedPathClosesAndKeepsPids ==
    filter = "m2psdmx" /\ ctx.ps /= NoHandle =>
        \A path \in Paths :
            LET r == m2psdmx_configure(ctx, DmxInPid, TRUE, path)
            IN  IF path /= ctx.src_url
                THEN /\ r.closed = 1
                     /\ r.ctx.ps = NoHandle
                     /\ InUse(r.ctx) = {}
                     /\ Len(r.ctx.streams) = Len(ctx.streams)
                     /\ \A j \in 1..Len(ctx.streams) :
                           r.ctx.streams[j] = [ctx.streams[j] EXCEPT !.in_use = FALSE]
                     /\ r.ctx.src_url = path
                     /\ r.ret = GF_OK
                     /\ m2psdmx_process(r.ctx, TRUE, {}).call.opened
                ELSE /\ r.closed = 0
                     /\ r.ctx.ps = ctx.ps
                     /\ r.ctx.streams = ctx.streams
                     /\ r.ctx.src_url = ctx.src_url

\* C8 witness: a source is open with streams in use, frames already read,
\* and the input pid connected.
C8_Witness ==
    /\ DmxCanProcess /\ ctx.ps /= NoHandle /\ InUse(ctx) /= {}
    /\ ctx.src_url = ctx.ps.path
    /\ \E i \in InUse(ctx) :
          CursorOf(ctx.ps, ctx.streams[i].stream_type, ctx.streams[i].stream_num) > 0

\* streams of a type in a pool, and those of them in use
OfType(streams, type) == {i \in 1..Len(streams) : streams[i].stream_type = type}

InUseOfType(streams, type) == {i \in OfType(streams, type) : streams[i].in_use}

\* number of audio streams of a source whose type is known
KnownAudio(ps) ==
    Cardinality({n \in 1..mpeg2ps_get_audio_stream_count(ps) :
                    AudioInfo(ps, n - 1).type /= "MPEG_AUDIO_UNKNOWN"})

Max(a, b) == IF a >= b THEN a ELSE b

ClearProps(streams) ==
    [j \in 1..Len(streams) |-> [streams[j] EXCEPT !.opid = gf_filter_pid_new]]

\* C10: when m2psdmx_setup reuses a pooled output pid, every property the
\* filter declares on its pids is overwritten with the value of the new
\* source stream, so the properties of the reused pid depend on the new
\* source only (they are those the pid would get had it carried no property
\* before), and width and height are those of the new stream.
C10_ReusedPidPropsAreFresh ==
    DmxCanProcess /\ in_pck /\ ctx.ps = NoHandle
                  /\ mpeg2ps_init(ctx.src_url) /= NoHandle =>
        LET r == m2psdmx_process(ctx, in_pck, {})
            f == m2psdmx_process([ctx EXCEPT !.streams = ClearProps(@)], in_pck, {})
        IN  \A j \in InUse(r.ctx) \cap 1..Len(ctx.streams) :
               LET st == r.ctx.streams[j]
               IN  /\ st.opid.props = f.ctx.streams[j].opid.props
                   /\ st.stream_type = GF_STREAM_VISUAL =>
                         /\ st.opid.props["WIDTH"] =
                               PROP_UINT(VideoInfo(r.ctx.ps, st.stream_num).width)
                         /\ st.opid.props["HEIGHT"] =
                               PROP_UINT(VideoInfo(r.ctx.ps, st.stream_num).height)

\* ffenc may be run on an input pid at end of stream with nothing pending,
\* with an encoder that was opened
EncAtEos == EncMayProcess /\ InputIsEos(epid) /\ ectx.encoder.open

\* C11: when the input pid of ffenc is at end of stream with no pending
\* packet, each process call submits a NULL frame to the encoder; a coded
\* unit it returns is sent on the output pid; the output pid is marked EOS,
\* flush_done set and GF_EOS returned only in a call where the encoder
\* returned no unit, so that EOS is never signalled while the encoder still
\* holds a unit.
C11_FlushDrainsBeforeEos ==
    EncAtEos =>
        \A fail \in {"none", "encode"} :
            LET r == ffenc_process(ectx, epid.queue, TRUE, FALSE, fail)
                marked == r.call.eos /= {}
            IN  /\ r.call.submits = << -1 >>
                /\ r.drop = 0
                /\ marked <=> r.call.sent = {}
                /\ marked <=> r.call.ret = GF_EOS
                /\ marked => r.ctx.flush_done
                /\ ~marked => r.ctx.flush_done = ectx.flush_done
                /\ ~marked => Len(r.ctx.encoder.queue) < Len(ectx.encoder.queue)
                /\ marked => r.ctx.encoder.queue = << >>

\* in the call with result r, stream i was asked for a frame and gave none
GaveNoFrame(r, i) == i \in r.call.reads /\ \A p \in r.call.sent : p.pid /= i

\* C12: m2psdmx_process marks EOS, drops the input packet and returns GF_EOS
\* exactly in the calls that reach the dispatch loop (playing) and in which
\* every stream of the list is not in use or gave no further frame; then
\* every output pid of the list is marked EOS and the input packet is dropped
\* once, so that a later call finds no packet and returns GF_OK.
C12_EosWhenAllStreamsDone ==
    DmxCanProcess =>
        \A blk \in BlockSets(ctx) :
            LET r == m2psdmx_process(ctx, in_pck, blk)
                count == Len(r.ctx.streams)
                done == /\ ReachedDispatch(ctx, in_pck, r)
                        /\ \A i \in 1..count :
                              ~r.ctx.streams[i].in_use \/ GaveNoFrame(r, i)
            IN  /\ done <=> r.call.ret = GF_EOS
                /\ done => /\ r.call.eos = 1..count
                           /\ r.call.dropped = 1
                           /\ r.drop
                           /\ NoOp(m2psdmx_process(r.ctx, in_pck /\ ~r.drop, blk), r.ctx)
                /\ ~done => /\ r.call.eos = {}
                            /\ r.call.dropped = 0
                            /\ ~r.drop

\* C12 witness: playing an open source, a packet pending, every in-use stream
\* exhausted after frames were sent, and the list also holds a pid that is
\* not in use.
C12_Witness ==
    /\ DmxCanProcess /\ in_pck /\ ctx.ps /= NoHandle /\ ctx.is_playing /\ ~ctx.in_seek
    /\ InUse(ctx) /= {}
    /\ Len(ctx.streams) > Cardinality(InUse(ctx))
    /\ \A i \in InUse(ctx) :
          ~HasFrame(ctx.ps, ctx.streams[i].stream_type, ctx.streams[i].stream_num)
    /\ m2psdmx_process(ctx, in_pck, {}).call.ret = GF_EOS

\* the audio process handler is set, the encoder is open and the audio
\* buffer holds less than one frame
EncAudioReady ==
    /\ EncMayProcess /\ ectx.process = "ffenc_process_audio" /\ ectx.encoder.open
    /\ \/ ectx.encoder.codec.frame_size = 0
       \/ ectx.bytes_in_audio_buffer
            < ectx.bytes_per_sample * ectx.encoder.codec.frame_size

\* pts of the first frame submitted to the encoder since it was opened, for
\* a call with result r made before any coded unit was emitted
FirstSubmitted(c, r) ==
    IF c.encoder.queue /= << >> THEN Head(c.encoder.queue) ELSE r.call.submits[1]

\* C13: in ffenc audio encoding ts_shift is captured once, on the first
\* coded unit emitted, as the pts of the first frame submitted to the encoder
\* minus the pts of that unit; it is added to the cts and dts of that and of
\* every later packet, and when it is not zero the audio-skip property
\* ts_shift * sample_rate / timescale is published on the output pid.
C13_TsShiftFromFirstFrame ==
    EncAudioReady =>
        LET r == ffenc_process(ectx, epid.queue, InputIsEos(epid), FALSE, "none")
        IN  \A p \in r.call.sent :
               LET unit == p.cts - r.ctx.ts_shift
               IN  /\ p.dts = p.cts
                   /\ ~r.ctx.init_cts_setup
                   /\ IF ectx.init_cts_setup
                      THEN /\ r.ctx.ts_shift = FirstSubmitted(ectx, r) - unit
                           /\ r.call.skip =
                                IF r.ctx.ts_shift /= 0
                                THEN (r.ctx.ts_shift * ectx.sample_rate) \div ectx.timescale
                                ELSE -1
                      ELSE /\ r.ctx.ts_shift = ectx.ts_shift
                           /\ r.call.skip = -1

C15_OpenIsLazyAndFailsInProcess ==
    filter = "m2psdmx" =>
        /\ \A path \in Paths :
              LET r == m2psdmx_configure(ctx, DmxInPid, TRUE, path)
              IN  /\ r.ret = GF_OK
                  /\ r.ctx.ps \in {NoHandle, ctx.ps}
                  /\ r.ctx.streams \in {ctx.streams, MarkUnused(ctx.streams)}
        /\ DmxCanProcess =>
              \A blk \in BlockSets(ctx) :
                  LET r == m2psdmx_process(ctx, in_pck, blk)
                  IN  /\ r.call.opened <=> (in_pck /\ ctx.ps = NoHandle)
                      /\ r.call.opened /\ mpeg2ps_init(ctx.src_url) = NoHandle =>
                            /\ r.call.failure =
                                  IF ~gf_file_exists(ctx.src_url)
                                  THEN GF_URL_ERROR
                                  ELSE GF_NON_COMPLIANT_BITSTREAM
                            /\ r.call.ret /= GF_OK
                            /\ r.call.created = 0 /\ r.call.eos = {}
                            /\ r.call.dropped = 0 /\ ~r.drop
                            /\ r.call.sent = {}
                            /\ r.ctx = ctx
                      /\ r.call.failure /= NULL =>
                            r.call.opened /\ mpeg2ps_init(ctx.src_url) = NoHandle

\* C15 witness: a filter that already has output pids of an earlier source was
\* configured with a malformed file; the packet is pending and the next
\* process call is the one that tries to open it.
C15_Witness ==
    /\ DmxCanProcess /\ in_pck /\ ctx.ps = NoHandle
    /\ ctx.src_url /= NULL /\ gf_file_exists(ctx.src_url)
    /\ mpeg2ps_init(ctx.src_url) = NoHandle
    /\ Len(ctx.streams) > 0 /\ ctx.is_playing
    /\ m2psdmx_process(ctx, in_pck, {}).call.failure = GF_NON_COMPLIANT_BITSTREAM

\* C16: after a process call of m2psdmx failed to open the source and
\* signalled setup failure, later process calls (no configure_pid in between)
\* neither try to open the source again nor signal setup failure again.
C16_NoRetryAfterOpenFailure ==
    DmxCanProcess /\ hist.failed /\ ctx.src_url /= NULL =>
        \A blk \in BlockSets(ctx) :
            LET r == m2psdmx_process(ctx, in_pck, blk)
            IN  ~r.call.opened /\ r.call.failure = NULL

\* the configure calls the session may make on ffenc in the current state
EncConfigureCalls ==
    { in \in ConfigureInputs : in[1] = "in2" => ectx.in_pid = "in1" }

\* ffenc_config_input rejects the pid as unsupported for one of: no stream
\* type, a stream type other than audio / video, a codec id other than raw, a
\* changed stream type, no encoder found for the codec
EncRejectedAsUnsupported(c, pid, cfg, r) ==
    /\ r.ret = GF_NOT_SUPPORTED
    /\ \/ cfg.type = NULL
       \/ cfg.type \notin {GF_STREAM_AUDIO, GF_STREAM_VISUAL}
       \/ ~cfg.codec_raw
       \/ c.type /= NULL /\ c.type /= cfg.type
       \/ avcodec_find_encoder(ffmpeg_codecid_from_gpac(r.ctx.codecid)) = NoCodec

\* C17 (m2psdmx): a configure_pid call that rejects the pin as unsupported
\* (capability check failed, or no file path) leaves the filter state
\* unchanged, closes nothing and keeps no reference to the rejected pin.
C17_DmxRejectionChangesNothing ==
    filter = "m2psdmx" =>
        \A caps_ok \in BOOLEAN, path \in Paths \cup {NULL} :
            LET r == m2psdmx_configure(ctx, DmxInPid, caps_ok, path)
            IN  r.ret = GF_NOT_SUPPORTED => r.ctx = ctx /\ r.closed = 0

\* C17 (ffenc): a configure call that rejects the pin as unsupported leaves
\* the filter state unchanged, closes no encoder and creates no pid.
C17_EncRejectionChangesNothing ==
    filter = "ffenc" =>
        \A in \in EncConfigureCalls :
            LET r == ffenc_config_input(ectx, in[1], in[2], in[3])
            IN  EncRejectedAsUnsupported(ectx, in[1], in[2], r) =>
                   /\ r.ctx = ectx
                   /\ r.closed = 0 /\ r.created = 0 /\ ~r.opened
                   /\ r.negotiate = 0

\* C17: when configure_pid rejects a pin as unsupported, in m2psdmx or in
\* ffenc, the state of the filter is unchanged by the call: no reference to
\* the rejected pin is kept (so no packet is ever pulled from it) and the
\* handle, encoder and pins configured before remain as they were.
C17_RejectedPinLeavesFilterInert ==
    C17_DmxRejectionChangesNothing /\ C17_EncRejectionChangesNothing

\* C18: when ffenc has an input pid and ffenc_config_input is called (not a
\* remove) for another pid with a valid raw audio or video stream, the call
\* returns GF_REQUIRES_NEW_INSTANCE and the instance is not affected: input
\* pid, output pid, encoder, stream type and codec id are as before the call.
C18_SecondPidLeavesInstanceUnaffected ==
    filter = "ffenc" /\ ectx.in_pid = "in1" /\ ectx.encoder.open =>
        \A cfg \in OtherPidConfigs :
            LET r == ffenc_config_input(ectx, "in2", cfg, "ok")
            IN  /\ r.ret = GF_REQUIRES_NEW_INSTANCE
                /\ r.closed = 0 /\ r.created = 0 /\ ~r.opened /\ r.negotiate = 0
                /\ r.ctx.in_pid = ectx.in_pid
                /\ r.ctx.out_pid = ectx.out_pid
                /\ r.ctx.encoder = ectx.encoder
                /\ r.ctx.type = ectx.type
                /\ r.ctx.codecid = ectx.codecid

\* a packet with a payload is pending and the encoder is open: the next
\* process call submits a frame unless it only accumulates audio
EncHasInput ==
    /\ EncMayProcess /\ ectx.encoder.open
    /\ epid.queue /= << >> /\ Head(epid.queue).data = "data"

\* the packets the upstream may send next
NextPackets ==
    { [cts |-> 4 * (epid.nsent + 1), size |-> p.size, data |-> p.data] :
        p \in {x \in InPackets : x.data = "data"} }

FormatsFor(c, cfg) ==
    LET cid == IF cfg.target /= NULL THEN cfg.target ELSE c.codecid
        codec == avcodec_find_encoder(ffmpeg_codecid_from_gpac(cid))
    IN  IF codec /= NoCodec /\ codec.kind = cfg.type THEN codec.fmts ELSE << >>

\* the call is not refused before its format check
ReachesFormatCheck(r) ==
    r.ret \notin {GF_NOT_SUPPORTED, GF_NON_COMPLIANT_BITSTREAM, GF_REQUIRES_NEW_INSTANCE}

\* the input format of cfg is not in the (non empty) format list of the encoder
FormatNotSupported(c, cfg) ==
    LET fmts == FormatsFor(c, cfg)
    IN  /\ fmts /= << >>
        /\ \A i \in 1..Len(fmts) : fmts[i] /= ffmpeg_fmt_from_gpac(cfg.fmt)

\* C20 (first half): a configure call whose input format is not in the
\* encoder's list negotiates the first format of the list, returns GF_OK,
\* does not open the encoder and creates no output pid.
C20_UnsupportedFormatIsNegotiated ==
    filter = "ffenc" =>
        \A in \in EncConfigureCalls :
            LET cfg == in[2]
                r == ffenc_config_input(ectx, in[1], cfg, "ok")
            IN  in[1] = "in1" /\ in[3] = "ok" /\ cfg \in ValidPidConfigs
                /\ ReachesFormatCheck(r) /\ FormatNotSupported(ectx, cfg) =>
                   /\ r.ret = GF_OK
                   /\ r.negotiate = ffmpeg_fmt_to_gpac(FormatsFor(ectx, cfg)[1])
                   /\ ~r.opened /\ r.created = 0
                   /\ r.ctx.encoder = NoEncoder

\* C20 (second half): after a negotiation, the configure call that carries
\* the negotiated format opens the encoder and negotiates nothing.
C20_NegotiationConverges ==
    filter = "ffenc" =>
        \A in \in EncConfigureCalls :
            LET cfg == in[2]
                r == ffenc_config_input(ectx, in[1], cfg, "ok")
            IN  in[1] = "in1" /\ in[3] = "ok" /\ cfg \in ValidPidConfigs
                /\ r.negotiate /= 0 =>
                   LET n == ffenc_config_input(r.ctx, in[1],
                                               [cfg EXCEPT !.fmt = r.negotiate], "ok")
                   IN  /\ n.ret = GF_OK /\ n.negotiate = 0
                       /\ n.opened /\ n.ctx.encoder.open

\* C20: an input format that the selected encoder does not support makes
\* ffenc_config_input negotiate the encoder's first format on the input pid,
\* return GF_OK and neither open the encoder nor create the output pid; the
\* reconfiguration with the negotiated format then opens the encoder without
\* another negotiation (one round trip).
C20_FormatNegotiationRoundTrip ==
    C20_UnsupportedFormatIsNegotiated /\ C20_NegotiationConverges

\* C21: after finalize, whatever calls came before it, every collaborator
\* handle the filter opened has been closed exactly once and every heap
\* buffer and stream record it allocated has been freed exactly once: no
\* handle is left open or closed twice, no record or buffer is leaked.
C21_FinalizeReleasesEverything ==
    filter = "finalized" =>
        /\ hist.handles = 0
        /\ hist.records = 0
        /\ hist.lost = {}

\* C22: in every reachable state an output pid exists only if a configure_pid
\* call of the filter has returned GF_OK before.  ffenc creates its output
\* pid only in a configure call that returns GF_OK with the encoder opened;
\* m2psdmx creates output pids only in a process call that opens the source,
\* after a configure call that returned GF_OK.
C22_OutputPidsNeedConfigureOk ==
    /\ filter = "m2psdmx" /\ Len(ctx.streams) > 0 => hist.configured
    /\ filter = "ffenc" /\ (ectx.out_pid /= NULL \/ epid.out /= "none") =>
          hist.configured
    /\ filter = "ffenc" =>
          \A in \in EncConfigureCalls :
              LET r == ffenc_config_input(ectx, in[1], in[2], in[3])
              IN  /\ r.created > 0 =>
                        r.ret = GF_OK /\ r.opened /\ r.ctx.encoder.open
                  /\ r.ctx.out_pid /= ectx.out_pid => r.created > 0
    /\ DmxCanProcess =>
          \A blk \in BlockSets(ctx) :
              LET r == m2psdmx_process(ctx, in_pck, blk)
              IN  /\ r.call.created > 0 =>
                        /\ hist.configured
                        /\ r.call.opened /\ r.ctx.ps /= NoHandle
                  /\ Len(r.ctx.streams) = Len(ctx.streams) + r.call.created

\* C22 witness: m2psdmx has no output pid yet and the next process call opens
\* the source and creates the pids.
C22_Witness ==
    /\ DmxCanProcess /\ in_pck /\ ctx.ps = NoHandle /\ ctx.streams = << >>
    /\ hist.configured
    /\ m2psdmx_process(ctx, in_pck, {}).call.created > 0

\* C23: every input packet ffenc_process obtains from its input pid is
\* dropped exactly once before the call returns, on every path, and neither
\* its payload nor its timestamp is read after the drop; a call that obtains
\* no packet drops none.
C23_PacketDroppedOnceAndLast ==
    EncMayProcess =>
        \A in \in ProcessInputs :
            LET r == ffenc_process(ectx, epid.queue, InputIsEos(epid), in[1], in[2])
                ops == r.call.pck_ops
            IN  /\ ops /= << >> <=> (~in[1] /\ epid.queue /= << >>)
                /\ ops /= << >> =>
                      /\ ops[1] = "get" /\ ops[Len(ops)] = "drop"
                      /\ \A j \in 1..(Len(ops) - 1) : ops[j] /= "drop"
                      /\ r.drop = 1 /\ r.call.dropped = 1
                /\ ops = << >> => r.drop = 0 /\ r.call.dropped = 0

\* C26: in every state in which ffenc has an output pid and a process
\* handler (so that ffenc_process can run the encode step on a pending
\* packet), the encoder is not NULL and was opened successfully, whatever
\* configure calls came before.
C26_ProcessHasOpenEncoder ==
    filter = "ffenc" /\ ectx.out_pid /= NULL /\ ectx.process /= NULL =>
        ectx.encoder /= NoEncoder /\ ectx.encoder.open

\* C24: in every state of m2psdmx, process_event cancels every PLAY and every
\* SET_SPEED event (returns TRUE) and passes STOP and every other event type
\* through (returns FALSE); SET_SPEED and the other event types leave the
\* state of the filter unchanged.
C24_EventClassification ==
    filter = "m2psdmx" =>
        \A type \in EventTypes, x \in 0..MaxStart :
            LET r == m2psdmx_process_event(ctx, type, x)
            IN  /\ r.cancel <=> type \in {"GF_FEVT_PLAY", "GF_FEVT_SET_SPEED"}
                /\ type \notin {"GF_FEVT_PLAY", "GF_FEVT_STOP"} => r.ctx = ctx

\* C24 witness: events arrive while the filter plays an open source with a
\* seek pending; SET_SPEED is cancelled and STOP is not.
C24_Witness ==
    /\ filter = "m2psdmx" /\ ctx.ps /= NoHandle /\ ctx.is_playing /\ ctx.in_seek
    /\ ctx.start_range = MaxStart
    /\ m2psdmx_process_event(ctx, "GF_FEVT_SET_SPEED", 0).cancel
    /\ ~m2psdmx_process_event(ctx, "GF_FEVT_STOP", 0).cancel

\* C25: between process calls of ffenc with an audio encoder of fixed frame
\* size (frame_size > 0), bytes_in_audio_buffer is below one frame
\* (bytes_per_sample * frame_size) and not above audio_buffer_size, for
\* packets of every size; hence the next call's nb_copy is not negative and
\* no call copies outside the buffer.
C25_AudioBufferBelowOneFrame ==
    filter = "ffenc" /\ ectx.process = "ffenc_process_audio"
    /\ ectx.encoder /= NoEncoder /\ ectx.encoder.codec.frame_size > 0 =>
       /\ ectx.bytes_in_audio_buffer
             < ectx.bytes_per_sample * ectx.encoder.codec.frame_size
       /\ ectx.bytes_in_audio_buffer <= ectx.sample_rate
       /\ EncMayProcess =>
             ffenc_process(ectx, epid.queue, InputIsEos(epid), FALSE,
                           "fault").call.ret /= "FAULT"

\* the in-use streams of c bound to stream n of a type; a stream owns its
\* output pid for as long as it is in the list
BoundTo(c, type, n) ==
    {i \in InUseOfType(c.streams, type) : c.streams[i].stream_num = n}

\* C27: when m2psdmx holds an open demux handle at the end of a process call,
\* its in-use streams are, one for one, the video streams and the audio
\* streams of known type of that source, each with a live output pid; also
\* after the input pid was removed and connected again with the same path.
C27_StreamsMatchOpenSource ==
    DmxCanProcess =>
       \A blk \in BlockSets(ctx) :
          LET c == m2psdmx_process(ctx, in_pck, blk).ctx
          IN  c.ps /= NoHandle =>
                /\ \A n \in 1..mpeg2ps_get_video_stream_count(c.ps) :
                      Cardinality(BoundTo(c, GF_STREAM_VISUAL, n - 1)) = 1
                /\ \A n \in 1..mpeg2ps_get_audio_stream_count(c.ps) :
                      Cardinality(BoundTo(c, GF_STREAM_AUDIO, n - 1)) =
                         IF AudioInfo(c.ps, n - 1).type = "MPEG_AUDIO_UNKNOWN"
                         THEN 0 ELSE 1
                /\ Cardinality(InUse(c)) =
                      mpeg2ps_get_video_stream_count(c.ps) + KnownAudio(c.ps)

\* the format a context hands to the encoder for a stream type
OpenFormat(c, type) == IF type = GF_STREAM_VISUAL THEN c.pixel_fmt ELSE c.sample_fmt

\* C28: whenever ffenc_config_input opens the encoder and the codec declares
\* a list of supported pixel (sample) formats, the format the encoder is
\* opened with is a member of that list, for every input format, the one of
\* value 0 included; an input format outside the list leads to a negotiation
\* and never to an open.
C28_OpenedFormatIsListed ==
    filter = "ffenc" =>
        \A in \in EncConfigureCalls :
            LET cfg == in[2]
                r == ffenc_config_input(ectx, in[1], cfg, in[3])
                fmts == FormatsFor(ectx, cfg)
            IN  in[1] = "in1" /\ cfg \in ValidPidConfigs /\ fmts /= << >> =>
                   /\ r.opened =>
                         \E k \in 1..Len(fmts) : fmts[k] = OpenFormat(r.ctx, cfg.type)
                   /\ ReachesFormatCheck(r) /\ FormatNotSupported(ectx, cfg) =>
                         r.negotiate /= 0 /\ ~r.opened

\* C29: no consumed audio input is lost at the end of the stream: in every
\* state of ffenc where the output pid of an audio encoder has been marked
\* EOS, bytes_in_audio_buffer is 0 (every byte taken from the dropped input
\* packets was submitted to the encoder before the EOS).  Stated for the
\* states where the input pid is at its end too.
C29_NoAudioLeftAtEos ==
    filter = "ffenc" /\ ectx.process = "ffenc_process_audio"
    /\ epid.eos /\ epid.out_eos =>
       ectx.bytes_in_audio_buffer = 0

\* C30: once an audio (re)configuration of ffenc has armed init_cts_setup,
\* the ts_shift added to the packets of the new encoder session is the
\* difference between the frame pts and the coded pts seen on the first coded
\* unit of that session (0 when they are equal), never a value left from the
\* session before, and the audio-skip property published on the output pid
\* is the one of the ts_shift applied.
C30_TsShiftIsOfThisSession ==
    EncAudioReady /\ ectx.init_cts_setup =>
        LET r == ffenc_process(ectx, epid.queue, InputIsEos(epid), FALSE, "none")
            published == IF r.call.skip /= -1 THEN r.call.skip ELSE epid.skip
        IN  \A p \in r.call.sent :
               LET coded == p.cts - r.ctx.ts_shift
               IN  /\ r.ctx.ts_shift = r.ctx.frame_pts - coded
                   /\ r.ctx.ts_shift /= 0 =>
                         published = (r.ctx.ts_shift * ectx.sample_rate)
                                        \div ectx.timescale

=============================================================================
